---- MODULE Spec2Model ----
(***************************************************************************)
(* Latch, barrier and producer/consumer programs of cpp_concurency.        *)
(*                                                                         *)
(* Every program is a set of threads started and joined by main().  A      *)
(* thread's position is the statement it executes next; one action is one  *)
(* statement of one thread.  std::latch is a counter (count_down, wait,    *)
(* arrive_and_wait, is_ready as the file headers describe them).           *)
(***************************************************************************)
EXTENDS Integers, Naturals, Sequences, FiniteSets, TLC

VARIABLES
    pc,          \* thread -> the statement it executes next ("ns" = not started)
    mainpc,      \* position of main(): the number of the statement it runs next
    latch,       \* latch name -> value of the std::latch counter
    counted,     \* latch name -> threads whose count_down on it has been executed
    aborted,     \* TRUE once the process was terminated by a library assertion
    barrier,     \* barrier name -> [arrived, generation, running]
    token,       \* thread -> generation of the barrier it arrived in
    arrivals,    \* barrier name -> set of <<thread, generation>> arrivals
    completions, \* barrier name -> the finished runs of the completion function,
                 \* in order, each as <<thread that ran it, generation>>
    data_queue,  \* std::queue<int> data_queue, front first
    queue_mutex, \* the thread that holds queue_mutex, or "free"
    notified,    \* TRUE when a notify_one() has woken the thread waiting on data_cond
    producer_i,  \* the loop variable i of producer()
    data,        \* the local variable data of consumer()
    processed,   \* the values of the consumer's "processed:" lines, in order
    cv_mtx,      \* the thread that holds cv_mtx, or "free"
    ready,       \* bool ready of test_condition_variable
    cv_notified, \* TRUE when a notify_one() has woken the thread waiting on cv
    atomic_counter, \* std::atomic<int> atomic_counter
    shared_data, \* std::vector<int> shared_data
    data_mutex,  \* <<id>> when task id holds data_mutex, <<>> when it is free
    arr,         \* the vector passed to parallel_sum
    calls,       \* call of a function -> its arguments and locals (parallel_sum: its
                 \* range, position, futures and sum; risky_compute: x)
    result,      \* the shared state of std::future<int> result
    output       \* the lines written to std::cout and std::cerr, in order

vars == <<pc, mainpc, latch, counted, aborted, barrier, token, arrivals, completions,
          data_queue, queue_mutex, notified, producer_i, data, processed,
          cv_mtx, ready, cv_notified, atomic_counter, shared_data, data_mutex,
          arr, calls, result, output>>

latchVars   == <<latch, counted, aborted>>
barrierVars == <<barrier, token, arrivals, completions>>
queueVars   == <<data_queue, queue_mutex, notified, producer_i, data, processed>>

asyncVars   == <<cv_mtx, ready, cv_notified, atomic_counter, shared_data,
                 data_mutex, arr, calls, result, output>>

\* The state of the other programs' objects in a program that has none of them.
NoAsync ==
    /\ cv_mtx = "free"
    /\ ready = FALSE
    /\ cv_notified = FALSE
    /\ atomic_counter = 0
    /\ shared_data = <<>>
    /\ data_mutex = <<>>
    /\ arr = <<>>
    /\ calls = <<>>
    /\ result = <<>>
    /\ output = <<>>

\* The globals of a program that has no queue, mutex or condition variable.
NoQueue ==
    /\ data_queue = <<>>
    /\ queue_mutex = "free"
    /\ notified = FALSE
    /\ producer_i = 0
    /\ data = 0
    /\ processed = <<>>

(***************************************************************************)
(* std::latch                                                              *)
(***************************************************************************)

\* is_ready(): checks if the latch's counter has reached zero.
is_ready(c) == c = 0

\* count_down(): decrements the latch's counter.
count_down(c) == c - 1

\* count_down() requires counter >= 1.  Calling it on a counter that is
\* already 0 is undefined behaviour: a build without library assertions
\* stores counter - 1, a build with them terminates the process.
count_down_outcomes(c) == IF c >= 1 THEN {"decrement"} ELSE {"decrement", "abort"}

\* A count_down() whose decrement is lost when another thread is about to
\* count down too (an unsynchronised read-modify-write of the counter).
LatchCountDown_lost(l, t) ==
    /\ latch' = IF \E u \in DOMAIN pc : u # t /\ pc[u] = "count_down"
                   THEN latch
                   ELSE [latch EXCEPT ![l] = count_down(@)]
    /\ aborted' = aborted
    /\ counted' = [counted EXCEPT ![l] = @ \cup {t}]

\* Thread t executes l.count_down().
LatchCountDown(l, t) ==
    \E o \in count_down_outcomes(latch[l]) :
        /\ latch' = IF o = "abort" THEN latch
                    ELSE [latch EXCEPT ![l] = count_down(@)]
        /\ aborted' = (o = "abort")
        /\ counted' = [counted EXCEPT ![l] = @ \cup {t}]

\* A wait() that lets its caller go while one count_down is still missing.
LatchWaitReturns_early(l) == latch[l] <= 1

\* l.wait() returns: blocks the calling thread until the counter reaches zero.
LatchWaitReturns(l) == is_ready(latch[l])

(***************************************************************************)
(* std::barrier: threshold participants per generation, an arrival         *)
(* counter, a generation number and a completion function.                 *)
(***************************************************************************)

\* A barrier of `threshold` participants before its first arrival.
NewBarrier(threshold) ==
    [threshold |-> threshold, arrived |-> 0, generation |-> 0, running |-> {}]

\* Thread t arrives at barrier b: it is counted in the current generation and
\* keeps that generation as the token it waits with.
BarrierArrive(b, t) ==
    /\ barrier' = [barrier EXCEPT ![b].arrived = @ + 1]
    /\ token' = [token EXCEPT ![t] = barrier[b].generation]
    /\ arrivals' = [arrivals EXCEPT ![b] = @ \cup {<<t, barrier[b].generation>>}]
    /\ UNCHANGED completions

\* A test for the last arrival that looks at the counter as it is after the arrival.
BarrierLastArrival_late(b) == barrier[b].arrived = barrier[b].threshold

\* The arrival about to be made is the threshold-th of its generation.
BarrierLastArrival(b) == barrier[b].arrived + 1 = barrier[b].threshold

\* The last arriver t enters the completion function.
BarrierCompletionStart(b, t) ==
    /\ barrier' = [barrier EXCEPT ![b].running = @ \cup {t}]
    /\ UNCHANGED <<token, arrivals, completions>>

\* A completion step that advances the generation and forgets to reset the counter.
BarrierCompletionEnd_no_reset(b, t) ==
    /\ barrier' = [barrier EXCEPT ![b].running = @ \ {t},
                                  ![b].generation = @ + 1]
    /\ completions' = [completions EXCEPT ![b] = Append(@, <<t, barrier[b].generation>>)]
    /\ UNCHANGED <<token, arrivals>>

\* The completion function returns; then the counter is reset and the
\* generation advances, which is what releases the waiters.
BarrierCompletionEnd(b, t) ==
    /\ barrier' = [barrier EXCEPT ![b].running = @ \ {t},
                                  ![b].arrived = 0,
                                  ![b].generation = @ + 1]
    /\ completions' = [completions EXCEPT ![b] = Append(@, <<t, barrier[b].generation>>)]
    /\ UNCHANGED <<token, arrivals>>

\* A wait that lets its caller go as soon as the last arrival was made.
BarrierWaitReturns_early(b, t) ==
    \/ barrier[b].generation # token[t]
    \/ barrier[b].arrived = barrier[b].threshold

\* The wait of thread t returns: the generation it arrived in is over.
BarrierWaitReturns(b, t) == barrier[b].generation # token[t]

(***************************************************************************)
(* Primitives/Sync/test_latch.cpp                                          *)
(***************************************************************************)

\* std::latch latch(3)
Latch_latch == 3

\* t1, t2, t3
Latch_threads == 1..3

Latch_Init ==
    /\ pc = [t \in Latch_threads |-> "ns"]
    /\ mainpc = 1
    /\ latch = [l \in {"latch"} |-> Latch_latch]
    /\ counted = [l \in {"latch"} |-> {}]
    /\ aborted = FALSE
    /\ barrier = <<>>
    /\ token = <<>>
    /\ arrivals = <<>>
    /\ completions = <<>>
    /\ NoQueue
    /\ NoAsync

\* std::cout << "Task " << id << " started.\n";
Latch_task_started(id) ==
    /\ ~aborted
    /\ pc[id] = "print_started"
    /\ pc' = [pc EXCEPT ![id] = "count_down"]
    /\ UNCHANGED <<mainpc, latchVars, barrierVars, queueVars, asyncVars>>

\* A task that goes on to wait() without having decremented the counter.
Latch_task_count_down_skipped(id) ==
    /\ ~aborted
    /\ pc[id] = "count_down"
    /\ pc' = [pc EXCEPT ![id] = "wait"]
    /\ UNCHANGED <<mainpc, latchVars, barrierVars, queueVars, asyncVars>>

\* latch.count_down();
Latch_task_count_down(id) ==
    /\ ~aborted
    /\ pc[id] = "count_down"
    /\ LatchCountDown("latch", id)
    /\ pc' = [pc EXCEPT ![id] = "wait"]
    /\ UNCHANGED <<mainpc, barrierVars, queueVars, asyncVars>>

\* latch.wait(); called: returns at once when the counter is zero, blocks otherwise
Latch_task_wait(id) ==
    /\ ~aborted
    /\ pc[id] = "wait"
    /\ pc' = [pc EXCEPT ![id] = IF LatchWaitReturns("latch") THEN "print_completed"
                                                              ELSE "blocked"]
    /\ UNCHANGED <<mainpc, latchVars, barrierVars, queueVars, asyncVars>>

\* latch.wait(); a blocked caller is released once the counter is zero
Latch_task_released(id) ==
    /\ ~aborted
    /\ pc[id] = "blocked"
    /\ LatchWaitReturns("latch")
    /\ pc' = [pc EXCEPT ![id] = "print_completed"]
    /\ UNCHANGED <<mainpc, latchVars, barrierVars, queueVars, asyncVars>>

\* std::cout << "Task " << id << " completed.\n"; and the return
Latch_task_completed(id) ==
    /\ ~aborted
    /\ pc[id] = "print_completed"
    /\ pc' = [pc EXCEPT ![id] = "done"]
    /\ UNCHANGED <<mainpc, latchVars, barrierVars, queueVars, asyncVars>>

Latch_task(id) ==
    \/ Latch_task_started(id)
    \/ Latch_task_count_down(id)
    \/ Latch_task_wait(id)
    \/ Latch_task_released(id)
    \/ Latch_task_completed(id)

\* std::thread t1(task, 1); t2; t3
Latch_main_spawn ==
    /\ ~aborted
    /\ mainpc \in 1..3
    /\ pc' = [pc EXCEPT ![mainpc] = "print_started"]
    /\ mainpc' = mainpc + 1
    /\ UNCHANGED <<latchVars, barrierVars, queueVars, asyncVars>>

\* t1.join(); t2.join(); t3.join(); return 0 follows the last join
Latch_main_join ==
    /\ ~aborted
    /\ mainpc \in 4..6
    /\ pc[mainpc - 3] = "done"
    /\ mainpc' = mainpc + 1
    /\ UNCHANGED <<pc, latchVars, barrierVars, queueVars, asyncVars>>

Latch_main == Latch_main_spawn \/ Latch_main_join

Latch_main_returned == mainpc = 7

Latch_Next == Latch_main \/ \E id \in Latch_threads : Latch_task(id)

LatchSpec == Latch_Init /\ [][Latch_Next]_vars

\* Every started thread and main are scheduled again and again.
LatchFairSpec ==
    /\ LatchSpec
    /\ WF_vars(Latch_main)
    /\ \A id \in Latch_threads : WF_vars(Latch_task(id))

(***************************************************************************)
(* Primitives/Sync/test_latch_full.cpp                                     *)
(***************************************************************************)

\* std::latch latch(3)
LatchFull_latch == 3

\* threads[0..2] run task(1..3); thread 4 is `final`, which runs final_task()
LatchFull_tasks == 1..3
LatchFull_final == 4
LatchFull_threads == LatchFull_tasks \cup {LatchFull_final}

LatchFull_Init ==
    /\ pc = [t \in LatchFull_threads |-> "ns"]
    /\ mainpc = 1
    /\ latch = [l \in {"latch"} |-> LatchFull_latch]
    /\ counted = [l \in {"latch"} |-> {}]
    /\ aborted = FALSE
    /\ barrier = <<>>
    /\ token = <<>>
    /\ arrivals = <<>>
    /\ completions = <<>>
    /\ NoQueue
    /\ NoAsync

\* std::cout << "Task " << id << " started.\n"; sleep_for(100 * id)
LatchFull_task_started(id) ==
    /\ ~aborted
    /\ pc[id] = "print_started"
    /\ pc' = [pc EXCEPT ![id] = "count_down"]
    /\ UNCHANGED <<mainpc, latchVars, barrierVars, queueVars, asyncVars>>

\* latch.count_down();
LatchFull_task_count_down(id) ==
    /\ ~aborted
    /\ pc[id] = "count_down"
    /\ LatchCountDown("latch", id)
    /\ pc' = [pc EXCEPT ![id] = "print_decremented"]
    /\ UNCHANGED <<mainpc, barrierVars, queueVars, asyncVars>>

\* std::cout << "Task " << id << " completed and decremented the latch.\n";
LatchFull_task_decremented(id) ==
    /\ ~aborted
    /\ pc[id] = "print_decremented"
    /\ pc' = [pc EXCEPT ![id] = "wait"]
    /\ UNCHANGED <<mainpc, latchVars, barrierVars, queueVars, asyncVars>>

\* latch.wait(); called: returns at once when the counter is zero, blocks otherwise
LatchFull_task_wait(id) ==
    /\ ~aborted
    /\ pc[id] = "wait"
    /\ pc' = [pc EXCEPT ![id] = IF LatchWaitReturns("latch") THEN "print_proceeding"
                                                              ELSE "blocked"]
    /\ UNCHANGED <<mainpc, latchVars, barrierVars, queueVars, asyncVars>>

\* latch.wait(); a blocked caller is released once the counter is zero
LatchFull_task_released(id) ==
    /\ ~aborted
    /\ pc[id] = "blocked"
    /\ LatchWaitReturns("latch")
    /\ pc' = [pc EXCEPT ![id] = "print_proceeding"]
    /\ UNCHANGED <<mainpc, latchVars, barrierVars, queueVars, asyncVars>>

\* std::cout << "Task " << id << " proceeding after latch is ready.\n"; and the return
LatchFull_task_proceeding(id) ==
    /\ ~aborted
    /\ pc[id] = "print_proceeding"
    /\ pc' = [pc EXCEPT ![id] = "done"]
    /\ UNCHANGED <<mainpc, latchVars, barrierVars, queueVars, asyncVars>>

LatchFull_task(id) ==
    \/ LatchFull_task_started(id)
    \/ LatchFull_task_count_down(id)
    \/ LatchFull_task_decremented(id)
    \/ LatchFull_task_wait(id)
    \/ LatchFull_task_released(id)
    \/ LatchFull_task_proceeding(id)

\* latch.arrive_and_wait(); its first half decrements the counter
LatchFull_final_task_arrive ==
    /\ ~aborted
    /\ pc[LatchFull_final] = "arrive_and_wait"
    /\ LatchCountDown("latch", LatchFull_final)
    /\ pc' = [pc EXCEPT ![LatchFull_final] = "wait"]
    /\ UNCHANGED <<mainpc, barrierVars, queueVars, asyncVars>>

\* latch.arrive_and_wait(); its second half waits until the counter reaches zero
LatchFull_final_task_wait ==
    /\ ~aborted
    /\ pc[LatchFull_final] = "wait"
    /\ pc' = [pc EXCEPT ![LatchFull_final] =
                 IF LatchWaitReturns("latch") THEN "print_final" ELSE "blocked"]
    /\ UNCHANGED <<mainpc, latchVars, barrierVars, queueVars, asyncVars>>

LatchFull_final_task_released ==
    /\ ~aborted
    /\ pc[LatchFull_final] = "blocked"
    /\ LatchWaitReturns("latch")
    /\ pc' = [pc EXCEPT ![LatchFull_final] = "print_final"]
    /\ UNCHANGED <<mainpc, latchVars, barrierVars, queueVars, asyncVars>>

\* std::cout << "Final task proceeding after all tasks are ready.\n"; and the return
LatchFull_final_task_proceeding ==
    /\ ~aborted
    /\ pc[LatchFull_final] = "print_final"
    /\ pc' = [pc EXCEPT ![LatchFull_final] = "done"]
    /\ UNCHANGED <<mainpc, latchVars, barrierVars, queueVars, asyncVars>>

LatchFull_final_task ==
    \/ LatchFull_final_task_arrive
    \/ LatchFull_final_task_wait
    \/ LatchFull_final_task_released
    \/ LatchFull_final_task_proceeding

\* The first statement of the function thread i runs.
LatchFull_entry(i) == IF i = LatchFull_final THEN "arrive_and_wait" ELSE "print_started"

\* main(): statements 1..3 threads.emplace_back(task, i); 4 std::thread final(final_task);
\* 5..7 t.join(); 8 final.join(); 9 if (latch.is_ready()), which leads to
\* 10 ("All tasks have completed, and the latch is ready.") or 11 ("Latch is not ready yet.")
LatchFull_main ==
    /\ ~aborted
    /\ mainpc \in 1..9
    /\ CASE mainpc \in 1..4 ->
              /\ pc' = [pc EXCEPT ![mainpc] = LatchFull_entry(mainpc)]
              /\ mainpc' = mainpc + 1
         [] mainpc \in 5..8 ->
              /\ pc[mainpc - 4] = "done"
              /\ mainpc' = mainpc + 1
              /\ pc' = pc
         [] OTHER ->
              /\ mainpc' = IF is_ready(latch["latch"]) THEN 10 ELSE 11
              /\ pc' = pc
    /\ UNCHANGED <<latchVars, barrierVars, queueVars, asyncVars>>

LatchFull_Next ==
    \/ LatchFull_main
    \/ \E id \in LatchFull_tasks : LatchFull_task(id)
    \/ LatchFull_final_task

LatchFullSpec == LatchFull_Init /\ [][LatchFull_Next]_vars

(***************************************************************************)
(* Primitives/Sync_Examples/test_multi_latch.cpp                           *)
(***************************************************************************)

\* std::latch stage1_latch(3); stage2_latch(3); stage3_latch(3);
MultiLatch_stage1_latch == 3
MultiLatch_stage2_latch == 3
MultiLatch_stage3_latch == 3

MultiLatch_stages == 1..3
MultiLatch_ids == 1..3

\* The name of the latch of stage s.
stage_latch(s) == <<"stage1_latch", "stage2_latch", "stage3_latch">>[s]

\* Thread of stageN_task(id), in the order main() starts them:
\* stage1_threads[0..2], stage2_threads[0..2], stage3_threads[0..2].
stage_thread(s, id) == 3 * (s - 1) + id
MultiLatch_threads == {stage_thread(s, id) : s \in MultiLatch_stages, id \in MultiLatch_ids}
stage_of(t) == ((t - 1) \div 3) + 1
MultiLatch_stage_threads(s) == {stage_thread(s, id) : id \in MultiLatch_ids}

MultiLatch_Init ==
    /\ pc = [t \in MultiLatch_threads |-> "ns"]
    /\ mainpc = 1
    /\ latch = [l \in {stage_latch(s) : s \in MultiLatch_stages} |->
                   CASE l = "stage1_latch" -> MultiLatch_stage1_latch
                     [] l = "stage2_latch" -> MultiLatch_stage2_latch
                     [] OTHER -> MultiLatch_stage3_latch]
    /\ counted = [l \in {stage_latch(s) : s \in MultiLatch_stages} |-> {}]
    /\ aborted = FALSE
    /\ barrier = <<>>
    /\ token = <<>>
    /\ arrivals = <<>>
    /\ completions = <<>>
    /\ NoQueue
    /\ NoAsync

\* A stage-3 task that waits for stage 1 instead of stage 2.
MultiLatch_waits_on_stage1(s) == stage_latch(1)

\* The latch stageN_task waits on before it starts: the one of the previous stage.
MultiLatch_waits_on(s) == stage_latch(s - 1)

\* A wait() that lets its caller through whatever the counter.
MultiLatch_task_wait_no_block(s, id) ==
    /\ ~aborted
    /\ pc[stage_thread(s, id)] = "wait"
    /\ pc' = [pc EXCEPT ![stage_thread(s, id)] = "print_started"]
    /\ UNCHANGED <<mainpc, latchVars, barrierVars, queueVars, asyncVars>>

\* stage1_latch.wait(); / stage2_latch.wait(); called by a task of stage s >= 2
MultiLatch_task_wait(s, id) ==
    /\ ~aborted
    /\ pc[stage_thread(s, id)] = "wait"
    /\ pc' = [pc EXCEPT ![stage_thread(s, id)] =
                 IF LatchWaitReturns(MultiLatch_waits_on(s)) THEN "print_started"
                                                             ELSE "blocked"]
    /\ UNCHANGED <<mainpc, latchVars, barrierVars, queueVars, asyncVars>>

\* A blocked caller of wait() that is released whatever the counter.
MultiLatch_task_released_spurious(s, id) ==
    /\ ~aborted
    /\ pc[stage_thread(s, id)] = "blocked"
    /\ pc' = [pc EXCEPT ![stage_thread(s, id)] = "print_started"]
    /\ UNCHANGED <<mainpc, latchVars, barrierVars, queueVars, asyncVars>>

\* the same wait(): a blocked caller is released once the counter is zero
MultiLatch_task_released(s, id) ==
    /\ ~aborted
    /\ pc[stage_thread(s, id)] = "blocked"
    /\ LatchWaitReturns(MultiLatch_waits_on(s))
    /\ pc' = [pc EXCEPT ![stage_thread(s, id)] = "print_started"]
    /\ UNCHANGED <<mainpc, latchVars, barrierVars, queueVars, asyncVars>>

\* std::cout << "Stage N Task " << id << " started.\n"; sleep_for(100 * id)
MultiLatch_task_started(s, id) ==
    /\ ~aborted
    /\ pc[stage_thread(s, id)] = "print_started"
    /\ pc' = [pc EXCEPT ![stage_thread(s, id)] = "count_down"]
    /\ UNCHANGED <<mainpc, latchVars, barrierVars, queueVars, asyncVars>>

\* stageN_latch.count_down();
MultiLatch_task_count_down(s, id) ==
    /\ ~aborted
    /\ pc[stage_thread(s, id)] = "count_down"
    /\ LatchCountDown(stage_latch(s), stage_thread(s, id))
    /\ pc' = [pc EXCEPT ![stage_thread(s, id)] = "print_completed"]
    /\ UNCHANGED <<mainpc, barrierVars, queueVars, asyncVars>>

\* std::cout << "Stage N Task " << id << " completed.\n"; and the return
MultiLatch_task_completed(s, id) ==
    /\ ~aborted
    /\ pc[stage_thread(s, id)] = "print_completed"
    /\ pc' = [pc EXCEPT ![stage_thread(s, id)] = "done"]
    /\ UNCHANGED <<mainpc, latchVars, barrierVars, queueVars, asyncVars>>

MultiLatch_stage1_task(id) ==
    \/ MultiLatch_task_started(1, id)
    \/ MultiLatch_task_count_down(1, id)
    \/ MultiLatch_task_completed(1, id)

MultiLatch_stage2_task(id) ==
    \/ MultiLatch_task_wait(2, id)
    \/ MultiLatch_task_released(2, id)
    \/ MultiLatch_task_started(2, id)
    \/ MultiLatch_task_count_down(2, id)
    \/ MultiLatch_task_completed(2, id)

MultiLatch_stage3_task(id) ==
    \/ MultiLatch_task_wait(3, id)
    \/ MultiLatch_task_released(3, id)
    \/ MultiLatch_task_started(3, id)
    \/ MultiLatch_task_count_down(3, id)
    \/ MultiLatch_task_completed(3, id)

\* A spawn that starts every task at its work, the wait() of stages 2 and 3 left out.
MultiLatch_main_spawn_no_wait ==
    /\ ~aborted
    /\ mainpc \in 1..9
    /\ pc' = [pc EXCEPT ![mainpc] = "print_started"]
    /\ mainpc' = mainpc + 1
    /\ UNCHANGED <<latchVars, barrierVars, queueVars, asyncVars>>

\* stageN_threads.emplace_back(stageN_task, i); for the three stages in turn
MultiLatch_main_spawn ==
    /\ ~aborted
    /\ mainpc \in 1..9
    /\ pc' = [pc EXCEPT ![mainpc] =
                 IF stage_of(mainpc) = 1 THEN "print_started" ELSE "wait"]
    /\ mainpc' = mainpc + 1
    /\ UNCHANGED <<latchVars, barrierVars, queueVars, asyncVars>>

\* t.join(); over stage1_threads, stage2_threads, stage3_threads
MultiLatch_main_join ==
    /\ ~aborted
    /\ mainpc \in 10..18
    /\ pc[mainpc - 9] = "done"
    /\ mainpc' = mainpc + 1
    /\ UNCHANGED <<pc, latchVars, barrierVars, queueVars, asyncVars>>

\* std::cout << "All stages completed.\n"; return 0;
MultiLatch_main_completed ==
    /\ ~aborted
    /\ mainpc = 19
    /\ mainpc' = 20
    /\ UNCHANGED <<pc, latchVars, barrierVars, queueVars, asyncVars>>

MultiLatch_main ==
    \/ MultiLatch_main_spawn
    \/ MultiLatch_main_join
    \/ MultiLatch_main_completed

MultiLatch_Next ==
    \/ MultiLatch_main
    \/ \E id \in MultiLatch_ids :
          \/ MultiLatch_stage1_task(id)
          \/ MultiLatch_stage2_task(id)
          \/ MultiLatch_stage3_task(id)

MultiLatchSpec == MultiLatch_Init /\ [][MultiLatch_Next]_vars

(***************************************************************************)
(* Primitives/Sync_Examples/test_barrier.cpp                               *)
(***************************************************************************)

\* t1, t2, t3
Barrier_threads == 1..3

\* A barrier built for one participant fewer than the threads that use it.
Barrier_barrier_short == Cardinality(Barrier_threads) - 1

\* std::barrier barrier(3, <completion function>)
Barrier_barrier == 3

Barrier_Init ==
    /\ pc = [t \in Barrier_threads |-> "ns"]
    /\ mainpc = 1
    /\ latch = <<>>
    /\ counted = <<>>
    /\ aborted = FALSE
    /\ barrier = [b \in {"barrier"} |-> NewBarrier(Barrier_barrier)]
    /\ token = [t \in Barrier_threads |-> -1]
    /\ arrivals = [b \in {"barrier"} |-> {}]
    /\ completions = [b \in {"barrier"} |-> <<>>]
    /\ NoQueue
    /\ NoAsync

\* std::cout << "Task " << id << " started.\n"; sleep_for(100 * id)
Barrier_task_started(id) ==
    /\ pc[id] = "print_started"
    /\ pc' = [pc EXCEPT ![id] = "arrive_and_wait"]
    /\ UNCHANGED <<mainpc, latchVars, barrierVars, queueVars, asyncVars>>

\* barrier.arrive_and_wait(); the arrival
Barrier_task_arrive(id) ==
    /\ pc[id] = "arrive_and_wait"
    /\ BarrierArrive("barrier", id)
    /\ pc' = [pc EXCEPT ![id] = IF BarrierLastArrival("barrier") THEN "completion"
                                                                 ELSE "barrier_wait"]
    /\ UNCHANGED <<mainpc, latchVars, queueVars, asyncVars>>

\* the completion function is entered by the last arriver
Barrier_completion_start(id) ==
    /\ pc[id] = "completion"
    /\ BarrierCompletionStart("barrier", id)
    /\ pc' = [pc EXCEPT ![id] = "completion_running"]
    /\ UNCHANGED <<mainpc, latchVars, queueVars, asyncVars>>

\* std::cout << "All tasks have reached the barrier.\n"; and its return
Barrier_completion_end(id) ==
    /\ pc[id] = "completion_running"
    /\ BarrierCompletionEnd("barrier", id)
    /\ pc' = [pc EXCEPT ![id] = "barrier_wait"]
    /\ UNCHANGED <<mainpc, latchVars, queueVars, asyncVars>>

\* barrier.arrive_and_wait(); the wait: returns at once when the generation is
\* over, blocks otherwise
Barrier_task_wait(id) ==
    /\ pc[id] = "barrier_wait"
    /\ pc' = [pc EXCEPT ![id] = IF BarrierWaitReturns("barrier", id)
                                 THEN "print_completed" ELSE "barrier_blocked"]
    /\ UNCHANGED <<mainpc, latchVars, barrierVars, queueVars, asyncVars>>

\* barrier.arrive_and_wait(); a blocked waiter is released
Barrier_task_released(id) ==
    /\ pc[id] = "barrier_blocked"
    /\ BarrierWaitReturns("barrier", id)
    /\ pc' = [pc EXCEPT ![id] = "print_completed"]
    /\ UNCHANGED <<mainpc, latchVars, barrierVars, queueVars, asyncVars>>

\* std::cout << "Task " << id << " completed.\n"; and the return
Barrier_task_completed(id) ==
    /\ pc[id] = "print_completed"
    /\ pc' = [pc EXCEPT ![id] = "done"]
    /\ UNCHANGED <<mainpc, latchVars, barrierVars, queueVars, asyncVars>>

Barrier_task(id) ==
    \/ Barrier_task_started(id)
    \/ Barrier_task_arrive(id)
    \/ Barrier_completion_start(id)
    \/ Barrier_completion_end(id)
    \/ Barrier_task_wait(id)
    \/ Barrier_task_released(id)
    \/ Barrier_task_completed(id)

\* std::thread t1(task, 1); t2; t3
Barrier_main_spawn ==
    /\ mainpc \in 1..3
    /\ pc' = [pc EXCEPT ![mainpc] = "print_started"]
    /\ mainpc' = mainpc + 1
    /\ UNCHANGED <<latchVars, barrierVars, queueVars, asyncVars>>

\* t1.join(); t2.join(); t3.join(); return 0 follows the last join
Barrier_main_join ==
    /\ mainpc \in 4..6
    /\ pc[mainpc - 3] = "done"
    /\ mainpc' = mainpc + 1
    /\ UNCHANGED <<pc, latchVars, barrierVars, queueVars, asyncVars>>

Barrier_main == Barrier_main_spawn \/ Barrier_main_join

Barrier_Next == Barrier_main \/ \E id \in Barrier_threads : Barrier_task(id)

BarrierSpec == Barrier_Init /\ [][Barrier_Next]_vars

(***************************************************************************)
(* Primitives/Sync_Examples/test_barier_latch.cpp                          *)
(***************************************************************************)

\* std::latch stage1_latch(3); stage2_latch(3); stage3_latch(3);
BarrierLatch_stage1_latch == 3
BarrierLatch_stage2_latch == 3
BarrierLatch_stage3_latch == 3

\* std::barrier stage1_barrier(3, ...); stage2_barrier(3, ...); stage3_barrier(3, ...);
BarrierLatch_stage1_barrier == 3
BarrierLatch_stage2_barrier == 3
BarrierLatch_stage3_barrier == 3

BarrierLatch_stages == 1..3
BarrierLatch_ids == 1..3

\* The name of the barrier of stage s.
stage_barrier(s) == <<"stage1_barrier", "stage2_barrier", "stage3_barrier">>[s]

BarrierLatch_threads ==
    {stage_thread(s, id) : s \in BarrierLatch_stages, id \in BarrierLatch_ids}
BarrierLatch_stage_threads(s) == {stage_thread(s, id) : id \in BarrierLatch_ids}

BarrierLatch_Init ==
    /\ pc = [t \in BarrierLatch_threads |-> "ns"]
    /\ mainpc = 1
    /\ latch = [l \in {stage_latch(s) : s \in BarrierLatch_stages} |->
                   CASE l = "stage1_latch" -> BarrierLatch_stage1_latch
                     [] l = "stage2_latch" -> BarrierLatch_stage2_latch
                     [] OTHER -> BarrierLatch_stage3_latch]
    /\ counted = [l \in {stage_latch(s) : s \in BarrierLatch_stages} |-> {}]
    /\ aborted = FALSE
    /\ barrier = [b \in {stage_barrier(s) : s \in BarrierLatch_stages} |->
                   CASE b = "stage1_barrier" -> NewBarrier(BarrierLatch_stage1_barrier)
                     [] b = "stage2_barrier" -> NewBarrier(BarrierLatch_stage2_barrier)
                     [] OTHER -> NewBarrier(BarrierLatch_stage3_barrier)]
    /\ token = [t \in BarrierLatch_threads |-> -1]
    /\ arrivals = [b \in {stage_barrier(s) : s \in BarrierLatch_stages} |-> {}]
    /\ completions = [b \in {stage_barrier(s) : s \in BarrierLatch_stages} |-> <<>>]
    /\ NoQueue
    /\ NoAsync

\* stage1_latch.wait(); / stage2_latch.wait(); called by a task of stage s >= 2
BarrierLatch_task_wait(s, id) ==
    /\ ~aborted
    /\ pc[stage_thread(s, id)] = "wait"
    /\ pc' = [pc EXCEPT ![stage_thread(s, id)] =
                 IF LatchWaitReturns(stage_latch(s - 1)) THEN "print_started"
                                                         ELSE "blocked"]
    /\ UNCHANGED <<mainpc, latchVars, barrierVars, queueVars, asyncVars>>

\* the same wait(): a blocked caller is released once the counter is zero
BarrierLatch_task_released(s, id) ==
    /\ ~aborted
    /\ pc[stage_thread(s, id)] = "blocked"
    /\ LatchWaitReturns(stage_latch(s - 1))
    /\ pc' = [pc EXCEPT ![stage_thread(s, id)] = "print_started"]
    /\ UNCHANGED <<mainpc, latchVars, barrierVars, queueVars, asyncVars>>

\* A task that goes from its work straight to count_down(), without the barrier.
BarrierLatch_task_started_no_barrier(s, id) ==
    /\ ~aborted
    /\ pc[stage_thread(s, id)] = "print_started"
    /\ pc' = [pc EXCEPT ![stage_thread(s, id)] = "count_down"]
    /\ UNCHANGED <<mainpc, latchVars, barrierVars, queueVars, asyncVars>>

\* std::cout << "Stage N Task " << id << " started.\n"; sleep_for(100 * id)
BarrierLatch_task_started(s, id) ==
    /\ ~aborted
    /\ pc[stage_thread(s, id)] = "print_started"
    /\ pc' = [pc EXCEPT ![stage_thread(s, id)] = "arrive_and_wait"]
    /\ UNCHANGED <<mainpc, latchVars, barrierVars, queueVars, asyncVars>>

\* stageN_barrier.arrive_and_wait(); the arrival
BarrierLatch_task_arrive(s, id) ==
    /\ ~aborted
    /\ pc[stage_thread(s, id)] = "arrive_and_wait"
    /\ BarrierArrive(stage_barrier(s), stage_thread(s, id))
    /\ pc' = [pc EXCEPT ![stage_thread(s, id)] =
                 IF BarrierLastArrival(stage_barrier(s)) THEN "completion"
                                                         ELSE "barrier_wait"]
    /\ UNCHANGED <<mainpc, latchVars, queueVars, asyncVars>>

\* the completion function of stageN_barrier is entered by the last arriver
BarrierLatch_completion_start(s, id) ==
    /\ ~aborted
    /\ pc[stage_thread(s, id)] = "completion"
    /\ BarrierCompletionStart(stage_barrier(s), stage_thread(s, id))
    /\ pc' = [pc EXCEPT ![stage_thread(s, id)] = "completion_running"]
    /\ UNCHANGED <<mainpc, latchVars, queueVars, asyncVars>>

\* std::cout << "All tasks in Stage N have reached the barrier.\n"; and its return
BarrierLatch_completion_end(s, id) ==
    /\ ~aborted
    /\ pc[stage_thread(s, id)] = "completion_running"
    /\ BarrierCompletionEnd(stage_barrier(s), stage_thread(s, id))
    /\ pc' = [pc EXCEPT ![stage_thread(s, id)] = "barrier_wait"]
    /\ UNCHANGED <<mainpc, latchVars, queueVars, asyncVars>>

\* stageN_barrier.arrive_and_wait(); the wait: returns at once when the
\* generation is over, blocks otherwise
BarrierLatch_task_barrier_wait(s, id) ==
    /\ ~aborted
    /\ pc[stage_thread(s, id)] = "barrier_wait"
    /\ pc' = [pc EXCEPT ![stage_thread(s, id)] =
                 IF BarrierWaitReturns(stage_barrier(s), stage_thread(s, id))
                 THEN "count_down" ELSE "barrier_blocked"]
    /\ UNCHANGED <<mainpc, latchVars, barrierVars, queueVars, asyncVars>>

\* stageN_barrier.arrive_and_wait(); a blocked waiter is released
BarrierLatch_task_barrier_released(s, id) ==
    /\ ~aborted
    /\ pc[stage_thread(s, id)] = "barrier_blocked"
    /\ BarrierWaitReturns(stage_barrier(s), stage_thread(s, id))
    /\ pc' = [pc EXCEPT ![stage_thread(s, id)] = "count_down"]
    /\ UNCHANGED <<mainpc, latchVars, barrierVars, queueVars, asyncVars>>

\* A task that prints "completed" without having decremented its stage latch.
BarrierLatch_task_count_down_skipped(s, id) ==
    /\ ~aborted
    /\ pc[stage_thread(s, id)] = "count_down"
    /\ pc' = [pc EXCEPT ![stage_thread(s, id)] = "print_completed"]
    /\ UNCHANGED <<mainpc, latchVars, barrierVars, queueVars, asyncVars>>

\* stageN_latch.count_down();
BarrierLatch_task_count_down(s, id) ==
    /\ ~aborted
    /\ pc[stage_thread(s, id)] = "count_down"
    /\ LatchCountDown(stage_latch(s), stage_thread(s, id))
    /\ pc' = [pc EXCEPT ![stage_thread(s, id)] = "print_completed"]
    /\ UNCHANGED <<mainpc, barrierVars, queueVars, asyncVars>>

\* std::cout << "Stage N Task " << id << " completed.\n"; and the return
BarrierLatch_task_completed(s, id) ==
    /\ ~aborted
    /\ pc[stage_thread(s, id)] = "print_completed"
    /\ pc' = [pc EXCEPT ![stage_thread(s, id)] = "done"]
    /\ UNCHANGED <<mainpc, latchVars, barrierVars, queueVars, asyncVars>>

\* The statements every stageN_task shares, from "started" to the return.
BarrierLatch_task_body(s, id) ==
    \/ BarrierLatch_task_started(s, id)
    \/ BarrierLatch_task_arrive(s, id)
    \/ BarrierLatch_completion_start(s, id)
    \/ BarrierLatch_completion_end(s, id)
    \/ BarrierLatch_task_barrier_wait(s, id)
    \/ BarrierLatch_task_barrier_released(s, id)
    \/ BarrierLatch_task_count_down(s, id)
    \/ BarrierLatch_task_completed(s, id)

BarrierLatch_stage1_task(id) == BarrierLatch_task_body(1, id)

BarrierLatch_stage2_task(id) ==
    \/ BarrierLatch_task_wait(2, id)
    \/ BarrierLatch_task_released(2, id)
    \/ BarrierLatch_task_body(2, id)

BarrierLatch_stage3_task(id) ==
    \/ BarrierLatch_task_wait(3, id)
    \/ BarrierLatch_task_released(3, id)
    \/ BarrierLatch_task_body(3, id)

\* stageN_threads.emplace_back(stageN_task, i); for the three stages in turn
BarrierLatch_main_spawn ==
    /\ ~aborted
    /\ mainpc \in 1..9
    /\ pc' = [pc EXCEPT ![mainpc] =
                 IF stage_of(mainpc) = 1 THEN "print_started" ELSE "wait"]
    /\ mainpc' = mainpc + 1
    /\ UNCHANGED <<latchVars, barrierVars, queueVars, asyncVars>>

\* t.join(); over stage1_threads, stage2_threads, stage3_threads
BarrierLatch_main_join ==
    /\ ~aborted
    /\ mainpc \in 10..18
    /\ pc[mainpc - 9] = "done"
    /\ mainpc' = mainpc + 1
    /\ UNCHANGED <<pc, latchVars, barrierVars, queueVars, asyncVars>>

\* std::cout << "All stages completed.\n"; return 0;
BarrierLatch_main_completed ==
    /\ ~aborted
    /\ mainpc = 19
    /\ mainpc' = 20
    /\ UNCHANGED <<pc, latchVars, barrierVars, queueVars, asyncVars>>

BarrierLatch_main ==
    \/ BarrierLatch_main_spawn
    \/ BarrierLatch_main_join
    \/ BarrierLatch_main_completed

BarrierLatch_Next ==
    \/ BarrierLatch_main
    \/ \E id \in BarrierLatch_ids :
          \/ BarrierLatch_stage1_task(id)
          \/ BarrierLatch_stage2_task(id)
          \/ BarrierLatch_stage3_task(id)

BarrierLatchSpec == BarrierLatch_Init /\ [][BarrierLatch_Next]_vars

(***************************************************************************)
(* The two pipelines, test_multi_latch.cpp and test_barier_latch.cpp, each *)
(* run by a scheduler that never stops while some thread can take a step.  *)
(***************************************************************************)

\* The program started is the one without barriers (test_multi_latch) or the
\* one with them (test_barier_latch).
Pipelines_with_barriers == DOMAIN barrier # {}

Pipelines_Init == MultiLatch_Init \/ BarrierLatch_Init

Pipelines_Next ==
    \/ ~Pipelines_with_barriers /\ MultiLatch_Next
    \/ Pipelines_with_barriers /\ BarrierLatch_Next

\* main has printed "All stages completed." and returned, all threads joined.
Pipelines_completed ==
    /\ mainpc = 20
    /\ \A t \in DOMAIN pc : pc[t] = "done"

PipelinesFairSpec ==
    /\ Pipelines_Init
    /\ [][Pipelines_Next]_vars
    /\ WF_vars(Pipelines_Next)

(***************************************************************************)
(* A reusable barrier cycled by its participants: CycleParticipants        *)
(* threads each call arrive_and_wait() on one barrier MaxGenerations times *)
(* (specification, sections 4.2 and 8).                                    *)
(***************************************************************************)

CycleParticipants == 3
MaxGenerations == 2

Cycle_threads == 1..CycleParticipants

\* The number of arrivals thread t has made so far.
Cycle_rounds(t) == Cardinality({a \in arrivals["barrier"] : a[1] = t})

Cycle_Init ==
    /\ pc = [t \in Cycle_threads |-> "arrive_and_wait"]
    /\ mainpc = 0
    /\ latch = <<>>
    /\ counted = <<>>
    /\ aborted = FALSE
    /\ barrier = [b \in {"barrier"} |-> NewBarrier(CycleParticipants)]
    /\ token = [t \in Cycle_threads |-> -1]
    /\ arrivals = [b \in {"barrier"} |-> {}]
    /\ completions = [b \in {"barrier"} |-> <<>>]
    /\ NoQueue
    /\ NoAsync

\* The statement after a return from arrive_and_wait(): the next cycle, or the end.
Cycle_after_return(t) ==
    IF Cycle_rounds(t) < MaxGenerations THEN "arrive_and_wait" ELSE "done"

\* arrive_and_wait(): the arrival
Cycle_arrive(t) ==
    /\ pc[t] = "arrive_and_wait"
    /\ BarrierArrive("barrier", t)
    /\ pc' = [pc EXCEPT ![t] = IF BarrierLastArrival("barrier") THEN "completion"
                                                                ELSE "barrier_wait"]
    /\ UNCHANGED <<mainpc, latchVars, queueVars, asyncVars>>

\* the completion function is entered by the last arriver
Cycle_completion_start(t) ==
    /\ pc[t] = "completion"
    /\ BarrierCompletionStart("barrier", t)
    /\ pc' = [pc EXCEPT ![t] = "completion_running"]
    /\ UNCHANGED <<mainpc, latchVars, queueVars, asyncVars>>

\* the completion function returns
Cycle_completion_end(t) ==
    /\ pc[t] = "completion_running"
    /\ BarrierCompletionEnd("barrier", t)
    /\ pc' = [pc EXCEPT ![t] = "barrier_wait"]
    /\ UNCHANGED <<mainpc, latchVars, queueVars, asyncVars>>

\* arrive_and_wait(): the wait, which returns at once or blocks
Cycle_wait(t) ==
    /\ pc[t] = "barrier_wait"
    /\ pc' = [pc EXCEPT ![t] = IF BarrierWaitReturns("barrier", t)
                                THEN Cycle_after_return(t) ELSE "barrier_blocked"]
    /\ UNCHANGED <<mainpc, latchVars, barrierVars, queueVars, asyncVars>>

\* arrive_and_wait(): a blocked waiter is released
Cycle_released(t) ==
    /\ pc[t] = "barrier_blocked"
    /\ BarrierWaitReturns("barrier", t)
    /\ pc' = [pc EXCEPT ![t] = Cycle_after_return(t)]
    /\ UNCHANGED <<mainpc, latchVars, barrierVars, queueVars, asyncVars>>

Cycle_participant(t) ==
    \/ Cycle_arrive(t)
    \/ Cycle_completion_start(t)
    \/ Cycle_completion_end(t)
    \/ Cycle_wait(t)
    \/ Cycle_released(t)

Cycle_Next == \E t \in Cycle_threads : Cycle_participant(t)

BarrierCycleSpec == Cycle_Init /\ [][Cycle_Next]_vars

(***************************************************************************)
(* Properties of test_latch.cpp                                            *)
(***************************************************************************)

Latch_returned(id) == pc[id] \in {"print_completed", "done"}

\* C2: no thread returns from latch.wait() while the counter is above zero:
\* a task that is past wait() sees the counter at 0 with all three
\* count_down() calls executed, so a waiter stays blocked after the first
\* and the second count_down(); and a wait() called when the counter is
\* already 0 returns without blocking.
C2_WaitOnlyAtZero ==
    /\ [](\A id \in Latch_threads :
            Latch_returned(id) =>
                /\ latch["latch"] = 0
                /\ counted["latch"] = Latch_threads)
    /\ [][\A id \in Latch_threads :
            (pc[id] = "wait" /\ latch["latch"] = 0) => pc'[id] # "blocked"]_vars

\* A waiter is blocked after the second count_down() and before the third.
C2_Witness ==
    \E id \in Latch_threads :
        /\ pc[id] = "blocked"
        /\ Cardinality(counted["latch"]) = 2
        /\ latch["latch"] = 1

\* C7: with three tasks that each count down once and then wait, under fair
\* scheduling every wait() returns, every task terminates and main's joins
\* return, whatever the order of arrival.
C7_LatchTerminates ==
    <>(Latch_main_returned /\ \A id \in Latch_threads : pc[id] = "done")

\* main has joined the three tasks, each of which was blocked or not in wait().
C7_Witness ==
    /\ Latch_main_returned
    /\ \A id \in Latch_threads : pc[id] = "done"
    /\ counted["latch"] = Latch_threads

(***************************************************************************)
(* Properties of test_latch_full.cpp                                       *)
(***************************************************************************)

\* C5: the counter of the latch stays within 0..capacity in every reachable
\* state, also after more count_down()/arrive_and_wait() calls than capacity.
C5_CounterInRange == latch["latch"] \in 0..LatchFull_latch

\* C6: once the counter has reached 0 it never changes again, whatever
\* count_down(), wait(), arrive_and_wait() or is_ready() call follows.
C6_ZeroIsFinal == [][latch["latch"] = 0 => latch'["latch"] = 0]_vars

\* C8: is_ready() is false in every state before the third decrement of
\* the latch of 3 and true in every state from the third decrement onward.
C8_ReadyFromNthArrival ==
    is_ready(latch["latch"]) <=> Cardinality(counted["latch"]) >= LatchFull_latch

\* C10: final_task is past latch.arrive_and_wait() only after all three
\* task() threads have called latch.count_down().
C10_FinalAfterAllTasks ==
    pc[LatchFull_final] \in {"print_final", "done"} =>
        LatchFull_tasks \subseteq counted["latch"]

(***************************************************************************)
(* Properties of test_multi_latch.cpp                                      *)
(***************************************************************************)

\* A task of stage s >= 2 has returned from the wait() at its start.
MultiLatch_entered(s, id) ==
    pc[stage_thread(s, id)] \in {"print_started", "count_down", "print_completed", "done"}

\* C1: for k in {2,3}, no stage-k task returns from the wait() on the latch
\* of stage k-1 (and so none begins stage-k work) until all three tasks of
\* stage k-1 have called count_down() on that latch.
C1_StageOrdering ==
    \A s \in {2, 3} : \A id \in MultiLatch_ids :
        MultiLatch_entered(s, id) =>
            MultiLatch_stage_threads(s - 1) \subseteq counted[stage_latch(s - 1)]

\* A stage-3 task has entered its stage while a stage-3 task that called
\* wait() earlier is still blocked, all of stage 2 having counted down.
C1_Witness ==
    /\ \E id \in MultiLatch_ids : MultiLatch_entered(3, id)
    /\ \E id \in MultiLatch_ids : pc[stage_thread(3, id)] = "blocked"
    /\ counted["stage2_latch"] = MultiLatch_stage_threads(2)

(***************************************************************************)
(* Properties of test_barrier.cpp                                          *)
(***************************************************************************)

\* Task id has returned from barrier.arrive_and_wait().
Barrier_returned(id) == pc[id] \in {"print_completed", "done"}

\* C3: release is all-or-nothing per generation: no task returns from
\* barrier.arrive_and_wait() (none prints "Task <id> completed.") before all
\* three tasks have arrived in the generation it arrived in.
C3_AllOrNothing ==
    \A id \in Barrier_threads :
        Barrier_returned(id) =>
            \A other \in Barrier_threads : <<other, token[id]>> \in arrivals["barrier"]

\* One task has returned while another one, arrived earlier, is still blocked.
C3_Witness ==
    /\ \E id \in Barrier_threads : Barrier_returned(id)
    /\ \E id \in Barrier_threads : pc[id] = "barrier_blocked"

(***************************************************************************)
(* Properties of test_barier_latch.cpp                                     *)
(***************************************************************************)

\* A task of stage s has returned from stageN_barrier.arrive_and_wait().
BarrierLatch_passed(s, id) ==
    pc[stage_thread(s, id)] \in {"count_down", "print_completed", "done"}

Cycle_returned(t) == token[t] >= 0 /\ pc[t] \in {"arrive_and_wait", "done"}

\* C9: generation isolation: the k-th arrival of a participant is counted in
\* generation k-1 and in no other, the counter holds exactly the arrivals of
\* the current generation, and a participant is released only when all
\* participants have arrived in the generation it arrived in, also when it
\* arrived while waiters of the previous generation had not yet returned.
C9_GenerationIsolation ==
    /\ \A t \in Cycle_threads :
          {a[2] : a \in {x \in arrivals["barrier"] : x[1] = t}} = 0..(Cycle_rounds(t) - 1)
    /\ barrier["barrier"].arrived =
          Cardinality({a \in arrivals["barrier"] : a[2] = barrier["barrier"].generation})
    /\ \A t \in Cycle_threads :
          Cycle_returned(t) =>
              /\ barrier["barrier"].generation > token[t]
              /\ \A u \in Cycle_threads : <<u, token[t]>> \in arrivals["barrier"]

\* A participant has arrived for generation 1 and waits there while a waiter
\* of generation 0 has not yet returned.
C9_Witness ==
    \E t, u \in Cycle_threads :
        /\ token[t] = 1 /\ pc[t] = "barrier_blocked"
        /\ token[u] = 0 /\ pc[u] = "barrier_blocked"

\* A task of stage s has returned from the wait() at its start (stage 1 has none).
BarrierLatch_entered(s, id) ==
    pc[stage_thread(s, id)] \notin {"ns", "wait", "blocked"}

\* C11: a stage-k task calls stagek_latch.count_down() only after all three
\* stage-k tasks have arrived at stagek_barrier and the completion function
\* of that barrier has run; so no task of stage k+1 starts before the
\* "All tasks in Stage k have reached the barrier." function has executed.
C11_CountDownAfterBarrier ==
    \A s \in BarrierLatch_stages :
        /\ \A id \in BarrierLatch_ids :
              (\/ stage_thread(s, id) \in counted[stage_latch(s)]
               \/ pc[stage_thread(s, id)] = "count_down") =>
                  /\ \A other \in BarrierLatch_stage_threads(s) :
                        <<other, 0>> \in arrivals[stage_barrier(s)]
                  /\ Len(completions[stage_barrier(s)]) >= 1
        /\ s > 1 =>
              \A id \in BarrierLatch_ids :
                  BarrierLatch_entered(s, id) =>
                      Len(completions[stage_barrier(s - 1)]) >= 1

\* A stage-1 task has counted down and a stage-1 task is still blocked at the
\* barrier that has completed; no stage-2 task has started.
C11_Witness ==
    /\ counted["stage1_latch"] # {}
    /\ \E id \in BarrierLatch_ids : pc[stage_thread(1, id)] = "barrier_blocked"
    /\ Len(completions["stage1_barrier"]) = 1
    /\ \A id \in BarrierLatch_ids : ~BarrierLatch_entered(2, id)

(***************************************************************************)
(* Properties of the two pipelines                                         *)
(***************************************************************************)

\* C12: when every task counts down its stage latch once, then under fair
\* scheduling, for every launch order and interleaving of the nine threads,
\* neither pipeline deadlocks: the three latches open, all threads terminate
\* and main reaches "All stages completed.".
C12_PipelinesTerminate ==
    <>(Pipelines_completed /\ \A l \in DOMAIN latch : latch[l] = 0)

\* test_barier_latch has completed: three latches open, three completion runs.
C12_Witness ==
    /\ Pipelines_completed
    /\ Pipelines_with_barriers
    /\ \A l \in DOMAIN latch : latch[l] = 0 /\ Cardinality(counted[l]) = 3
    /\ \A b \in DOMAIN barrier : Len(completions[b]) = 1

(***************************************************************************)
(* Further properties of test_multi_latch.cpp                              *)
(***************************************************************************)

\* Some task of stage s has not (yet) called stageN_latch.count_down().
MultiLatch_missing(s) ==
    \E id \in MultiLatch_ids : stage_thread(s, id) \notin counted[stage_latch(s)]

\* C13: stall semantics: for as long as one participant of stage i has not
\* counted down its stage latch, no participant of any later stage has started
\* and main has not reached "All stages completed."; the latches do nothing
\* about it: a latch changes only by the count_down() of a task, nothing is
\* raised, and a blocked task leaves wait() only when its latch is at zero,
\* so a participant that never counts down leaves the others blocked forever.
C13_StallBlocksLaterStages ==
    /\ [](\A i \in MultiLatch_stages :
            MultiLatch_missing(i) =>
                /\ \A j \in MultiLatch_stages : \A id \in MultiLatch_ids :
                       j > i => ~MultiLatch_entered(j, id)
                /\ mainpc < 19
                /\ ~aborted)
    /\ [][/\ latch' # latch =>
                \E t \in MultiLatch_threads :
                    /\ pc[t] = "count_down"
                    /\ pc'[t] = "print_completed"
                    /\ latch' = [latch EXCEPT ![stage_latch(stage_of(t))] = @ - 1]
          /\ \A t \in MultiLatch_threads :
                (pc[t] = "blocked" /\ pc'[t] # "blocked") =>
                    latch[MultiLatch_waits_on(stage_of(t))] = 0]_vars

\* One stage-1 task has not counted down yet while the other two have
\* completed: every task of stages 2 and 3 is blocked and main is in a join.
C13_Witness ==
    /\ \E id \in MultiLatch_ids :
          /\ pc[stage_thread(1, id)] = "count_down"
          /\ \A other \in MultiLatch_ids \ {id} : pc[stage_thread(1, other)] = "done"
    /\ \A s \in {2, 3} : \A id \in MultiLatch_ids : pc[stage_thread(s, id)] = "blocked"
    /\ mainpc \in 10..18

\* The number of stage latches that are open: 0 while stage 1 runs (or before
\* any task is spawned), s while stage s + 1 runs, 3 once every stage is complete.
MultiLatch_stage_index ==
    Cardinality({s \in MultiLatch_stages : is_ready(latch[stage_latch(s)])})

\* Task t has started its stage's work and has not yet counted down.
MultiLatch_working(t) == pc[t] \in {"print_started", "count_down"}

\* C14: the pipeline moves through its stages in order: the open latches are
\* always those of the stages 1..k (no stage is skipped), k never decreases
\* and grows by one exactly in the step in which the last task of stage k + 1
\* counts down, every task that is working (started, not yet counted down)
\* belongs to stage k + 1, and once the three latches are open none changes.
C14_StageMachine ==
    /\ [](/\ \A s \in MultiLatch_stages :
                is_ready(latch[stage_latch(s)]) => s <= MultiLatch_stage_index
          /\ \A t \in MultiLatch_threads :
                MultiLatch_working(t) => stage_of(t) = MultiLatch_stage_index + 1)
    /\ [][/\ MultiLatch_stage_index' \in
                {MultiLatch_stage_index, MultiLatch_stage_index + 1}
          /\ MultiLatch_stage_index' = MultiLatch_stage_index + 1 <=>
                \E t \in MultiLatch_threads :
                    /\ stage_of(t) = MultiLatch_stage_index + 1
                    /\ pc[t] = "count_down"
                    /\ pc'[t] = "print_completed"
                    /\ counted'[stage_latch(stage_of(t))] =
                           MultiLatch_stage_threads(stage_of(t))
          /\ MultiLatch_stage_index = 3 => latch' = latch]_vars

\* Stage 2 is running: one of its tasks is working, one has counted down, a
\* stage-1 task is still printing "completed" and stage 3 is blocked.
C14_Witness ==
    /\ MultiLatch_stage_index = 1
    /\ \E t \in MultiLatch_stage_threads(2) : MultiLatch_working(t)
    /\ \E t \in MultiLatch_stage_threads(2) : t \in counted["stage2_latch"]
    /\ \E t \in MultiLatch_stage_threads(1) : pc[t] = "print_completed"
    /\ \A t \in MultiLatch_stage_threads(3) : pc[t] = "blocked"

\* Task t is in the wait() that precedes its stage: at the call or blocked in it.
MultiLatch_in_wait(t) == pc[t] \in {"wait", "blocked"}

\* C16 as stated: the wait on the latch of the second and third stage's
\* predecessor blocks until that latch is ready, except that the wait on the
\* first stage's latch (the one stage2_task performs) never blocks, whatever
\* the latch's counter; tasks of the first stage perform no wait.
C16_FirstGateNeverBlocks ==
    /\ \A id \in MultiLatch_ids :
          MultiLatch_entered(3, id) => is_ready(latch["stage2_latch"])
    /\ \A id \in MultiLatch_ids : pc[stage_thread(2, id)] # "blocked"
    /\ \A id \in MultiLatch_ids : ~MultiLatch_in_wait(stage_thread(1, id))

\* C16 (amended): the wait on the latch of any stage, the first stage's
\* included, blocks until that latch is ready: a task of stage 2 or 3 that
\* calls wait() while its predecessor's latch is above zero becomes blocked,
\* returns at once when it is zero, and leaves wait() only with the latch at
\* zero; tasks of the first stage perform no wait and start when spawned.
C16_AwaitStage ==
    /\ [](\A id \in MultiLatch_ids : ~MultiLatch_in_wait(stage_thread(1, id)))
    /\ [][\A t \in MultiLatch_threads :
            /\ (pc[t] = "ns" /\ pc'[t] # "ns") =>
                  pc'[t] = IF stage_of(t) = 1 THEN "print_started" ELSE "wait"
            /\ (pc[t] = "wait" /\ pc'[t] # "wait") =>
                  pc'[t] = IF is_ready(latch[MultiLatch_waits_on(stage_of(t))])
                              THEN "print_started" ELSE "blocked"
            /\ (MultiLatch_in_wait(t) /\ ~MultiLatch_in_wait(t)') =>
                  /\ is_ready(latch[MultiLatch_waits_on(stage_of(t))])
                  /\ pc'[t] = "print_started"]_vars

\* A stage-2 task is blocked in stage1_latch.wait() with the latch above zero
\* while a stage-1 task, spawned without any wait, is already working.
C16_Witness ==
    /\ \E id \in MultiLatch_ids : pc[stage_thread(2, id)] = "blocked"
    /\ ~is_ready(latch["stage1_latch"])
    /\ \E id \in MultiLatch_ids : MultiLatch_working(stage_thread(1, id))
    /\ \E id \in MultiLatch_ids : stage_thread(1, id) \in counted["stage1_latch"]

(***************************************************************************)
(* std_async_prod_consumer_condvar.cpp                                     *)
(*   std::queue<int> data_queue; std::mutex queue_mutex;                   *)
(*   std::condition_variable data_cond;                                    *)
(*   producer(10) and consumer(1) run as std::async tasks; main() waits    *)
(*   for the producer, pushes -1 and waits for the consumer.               *)
(***************************************************************************)

\* std::async(std::launch::async, producer, 10): the argument count
ProdCons_count == 10

\* the two std::async tasks
ProdCons_tasks == {"producer", "consumer"}

\* the special value main() pushes to make the consumer exit
ProdCons_sentinel == -1

ProdCons_Init ==
    /\ pc = [t \in ProdCons_tasks |-> "ns"]
    /\ mainpc = 1
    /\ latch = <<>>
    /\ counted = <<>>
    /\ aborted = FALSE
    /\ barrier = <<>>
    /\ token = <<>>
    /\ arrivals = <<>>
    /\ completions = <<>>
    /\ data_queue = <<>>
    /\ queue_mutex = "free"
    /\ notified = FALSE
    /\ producer_i = 0
    /\ data = 0
    /\ processed = <<>>
    /\ NoAsync

\* std::lock_guard / std::unique_lock constructor: thread t takes queue_mutex
MutexLock(t) ==
    /\ queue_mutex = "free"
    /\ queue_mutex' = t

\* the destructor of the lock, or lock.unlock()
MutexUnlock(t) ==
    /\ queue_mutex = t
    /\ queue_mutex' = "free"

\* data_cond.notify_one(): wakes the consumer if it is blocked on data_cond
NotifyOne ==
    notified' = IF pc["consumer"] = "waiting" THEN TRUE ELSE notified

\* for (int i = 0; i < count; ++i) { sleep_for(100ms); ... }: the loop test
ProdCons_producer_loop ==
    /\ pc["producer"] = "loop"
    /\ pc' = [pc EXCEPT !["producer"] =
                 IF producer_i < ProdCons_count THEN "lock" ELSE "done"]
    /\ UNCHANGED <<mainpc, latchVars, barrierVars, queueVars, asyncVars>>

\* std::lock_guard<std::mutex> lock(queue_mutex);
ProdCons_producer_lock ==
    /\ pc["producer"] = "lock"
    /\ MutexLock("producer")
    /\ pc' = [pc EXCEPT !["producer"] = "push"]
    /\ UNCHANGED <<mainpc, latchVars, barrierVars, asyncVars,
                   data_queue, notified, producer_i, data, processed>>

\* data_queue.push(i); std::cout << "Produced: " << i
ProdCons_producer_push ==
    /\ pc["producer"] = "push"
    /\ data_queue' = Append(data_queue, producer_i)
    /\ pc' = [pc EXCEPT !["producer"] = "notify"]
    /\ UNCHANGED <<mainpc, latchVars, barrierVars, asyncVars,
                   queue_mutex, notified, producer_i, data, processed>>

\* A producer that pushes without notifying the consumer.
ProdCons_producer_notify_skipped ==
    /\ pc["producer"] = "notify"
    /\ pc' = [pc EXCEPT !["producer"] = "unlock"]
    /\ UNCHANGED <<mainpc, latchVars, barrierVars, queueVars, asyncVars>>

\* data_cond.notify_one();
ProdCons_producer_notify ==
    /\ pc["producer"] = "notify"
    /\ NotifyOne
    /\ pc' = [pc EXCEPT !["producer"] = "unlock"]
    /\ UNCHANGED <<mainpc, latchVars, barrierVars, asyncVars,
                   data_queue, queue_mutex, producer_i, data, processed>>

\* end of the loop body: the lock_guard releases queue_mutex, then ++i
ProdCons_producer_unlock ==
    /\ pc["producer"] = "unlock"
    /\ MutexUnlock("producer")
    /\ producer_i' = producer_i + 1
    /\ pc' = [pc EXCEPT !["producer"] = "loop"]
    /\ UNCHANGED <<mainpc, latchVars, barrierVars, asyncVars,
                   data_queue, notified, data, processed>>

producer ==
    \/ ProdCons_producer_loop
    \/ ProdCons_producer_lock
    \/ ProdCons_producer_push
    \/ ProdCons_producer_notify
    \/ ProdCons_producer_unlock

\* std::unique_lock<std::mutex> lock(queue_mutex); and the re-acquisition of
\* queue_mutex by data_cond.wait() after a wake-up
ProdCons_consumer_lock ==
    /\ pc["consumer"] \in {"lock", "relock"}
    /\ MutexLock("consumer")
    /\ pc' = [pc EXCEPT !["consumer"] = "check"]
    /\ UNCHANGED <<mainpc, latchVars, barrierVars, asyncVars,
                   data_queue, notified, producer_i, data, processed>>

\* A wait that goes on to front() without testing that the queue holds data.
ProdCons_consumer_check_no_predicate ==
    /\ pc["consumer"] = "check"
    /\ pc' = [pc EXCEPT !["consumer"] = "front"]
    /\ UNCHANGED <<mainpc, latchVars, barrierVars, queueVars, asyncVars>>

\* data_cond.wait(lock, [] { return !data_queue.empty(); }): the predicate is
\* tested with the mutex held; if it is false the mutex is released and the
\* thread blocks on data_cond, in one atomic step
ProdCons_consumer_check ==
    /\ pc["consumer"] = "check"
    /\ IF data_queue # <<>>
          THEN /\ pc' = [pc EXCEPT !["consumer"] = "front"]
               /\ UNCHANGED queue_mutex
          ELSE /\ pc' = [pc EXCEPT !["consumer"] = "waiting"]
               /\ MutexUnlock("consumer")
    /\ UNCHANGED <<mainpc, latchVars, barrierVars, asyncVars,
                   data_queue, notified, producer_i, data, processed>>

\* the thread blocked on data_cond is woken by a notify_one()
ProdCons_consumer_woken ==
    /\ pc["consumer"] = "waiting"
    /\ notified
    /\ notified' = FALSE
    /\ pc' = [pc EXCEPT !["consumer"] = "relock"]
    /\ UNCHANGED <<mainpc, latchVars, barrierVars, asyncVars,
                   data_queue, queue_mutex, producer_i, data, processed>>

\* the thread blocked on data_cond wakes up spuriously, as
\* std::condition_variable::wait permits
ProdCons_consumer_spurious ==
    /\ pc["consumer"] = "waiting"
    /\ ~notified
    /\ pc' = [pc EXCEPT !["consumer"] = "relock"]
    /\ UNCHANGED <<mainpc, latchVars, barrierVars, queueVars, asyncVars>>

\* int data = data_queue.front();
ProdCons_consumer_front ==
    /\ pc["consumer"] = "front"
    /\ data' = Head(data_queue)
    /\ pc' = [pc EXCEPT !["consumer"] = "pop"]
    /\ UNCHANGED <<mainpc, latchVars, barrierVars, asyncVars,
                   data_queue, queue_mutex, notified, producer_i, processed>>

\* data_queue.pop();
ProdCons_consumer_pop ==
    /\ pc["consumer"] = "pop"
    /\ data_queue' = Tail(data_queue)
    /\ pc' = [pc EXCEPT !["consumer"] = "unlock"]
    /\ UNCHANGED <<mainpc, latchVars, barrierVars, asyncVars,
                   queue_mutex, notified, producer_i, data, processed>>

\* lock.unlock();
ProdCons_consumer_unlock ==
    /\ pc["consumer"] = "unlock"
    /\ MutexUnlock("consumer")
    /\ pc' = [pc EXCEPT !["consumer"] = "print"]
    /\ UNCHANGED <<mainpc, latchVars, barrierVars, asyncVars,
                   data_queue, notified, producer_i, data, processed>>

\* std::cout << "Consumer " << id << " processed: " << data;
\* if (data == -1) break;   otherwise the next iteration of while (true)
ProdCons_consumer_print ==
    /\ pc["consumer"] = "print"
    /\ processed' = Append(processed, data)
    /\ pc' = [pc EXCEPT !["consumer"] =
                 IF data = ProdCons_sentinel THEN "done" ELSE "lock"]
    /\ UNCHANGED <<mainpc, latchVars, barrierVars, asyncVars,
                   data_queue, queue_mutex, notified, producer_i, data>>

consumer ==
    \/ ProdCons_consumer_lock
    \/ ProdCons_consumer_check
    \/ ProdCons_consumer_woken
    \/ ProdCons_consumer_front
    \/ ProdCons_consumer_pop
    \/ ProdCons_consumer_unlock
    \/ ProdCons_consumer_print

\* auto producer_future = std::async(std::launch::async, producer, 10);
\* auto consumer_future = std::async(std::launch::async, consumer, 1);
ProdCons_main_async ==
    /\ mainpc \in {1, 2}
    /\ pc' = IF mainpc = 1 THEN [pc EXCEPT !["producer"] = "loop"]
                           ELSE [pc EXCEPT !["consumer"] = "lock"]
    /\ mainpc' = mainpc + 1
    /\ UNCHANGED <<latchVars, barrierVars, queueVars, asyncVars>>

\* A main() that does not wait for the producer before it signals the exit.
ProdCons_main_get_producer_no_wait ==
    /\ mainpc = 3
    /\ mainpc' = 4
    /\ UNCHANGED <<pc, latchVars, barrierVars, queueVars, asyncVars>>

\* producer_future.get();
ProdCons_main_get_producer ==
    /\ mainpc = 3
    /\ pc["producer"] = "done"
    /\ mainpc' = 4
    /\ UNCHANGED <<pc, latchVars, barrierVars, queueVars, asyncVars>>

\* std::lock_guard<std::mutex> lock(queue_mutex);
ProdCons_main_lock ==
    /\ mainpc = 4
    /\ MutexLock("main")
    /\ mainpc' = 5
    /\ UNCHANGED <<pc, latchVars, barrierVars, asyncVars,
                   data_queue, notified, producer_i, data, processed>>

\* data_queue.push(-1);
ProdCons_main_push ==
    /\ mainpc = 5
    /\ data_queue' = Append(data_queue, ProdCons_sentinel)
    /\ mainpc' = 6
    /\ UNCHANGED <<pc, latchVars, barrierVars, asyncVars,
                   queue_mutex, notified, producer_i, data, processed>>

\* data_cond.notify_one();
ProdCons_main_notify ==
    /\ mainpc = 6
    /\ NotifyOne
    /\ mainpc' = 7
    /\ UNCHANGED <<pc, latchVars, barrierVars, asyncVars,
                   data_queue, queue_mutex, producer_i, data, processed>>

\* end of the block: the lock_guard releases queue_mutex
ProdCons_main_unlock ==
    /\ mainpc = 7
    /\ MutexUnlock("main")
    /\ mainpc' = 8
    /\ UNCHANGED <<pc, latchVars, barrierVars, asyncVars,
                   data_queue, notified, producer_i, data, processed>>

\* consumer_future.get(); return 0;
ProdCons_main_get_consumer ==
    /\ mainpc = 8
    /\ pc["consumer"] = "done"
    /\ mainpc' = 9
    /\ UNCHANGED <<pc, latchVars, barrierVars, queueVars, asyncVars>>

ProdCons_main ==
    \/ ProdCons_main_async
    \/ ProdCons_main_get_producer
    \/ ProdCons_main_lock
    \/ ProdCons_main_push
    \/ ProdCons_main_notify
    \/ ProdCons_main_unlock
    \/ ProdCons_main_get_consumer

\* main() has returned.
ProdCons_main_returned == mainpc = 9

ProdCons_Next ==
    \/ ProdCons_main
    \/ producer
    \/ consumer
    \/ ProdCons_consumer_spurious

\* Every thread that can take a step eventually takes one, a thread that
\* tries to lock queue_mutex eventually gets it, and no spurious wake-up is
\* ever required to happen.
ProdConsFairSpec ==
    /\ ProdCons_Init
    /\ [][ProdCons_Next]_vars
    /\ SF_vars(ProdCons_main)
    /\ SF_vars(producer)
    /\ SF_vars(consumer)

(***************************************************************************)
(* Properties of std_async_prod_consumer_condvar.cpp                       *)
(***************************************************************************)

\* What the consumer is to process: the producer's values 0..count-1 in the
\* order produced, then the value pushed by main().
ProdCons_expected ==
    [k \in 1..(ProdCons_count + 1) |->
        IF k <= ProdCons_count THEN k - 1 ELSE ProdCons_sentinel]

\* Sequence p is an initial part of sequence q.
IsPrefix(p, q) ==
    /\ Len(p) <= Len(q)
    /\ \A k \in 1..Len(p) : p[k] = q[k]

\* The value the consumer has popped and not yet printed as processed.
ProdCons_in_hand ==
    IF pc["consumer"] \in {"unlock", "print"} THEN <<data>> ELSE <<>>

\* C17: the consumer processes 0..9 each once, in the order produced, then
\* the sentinel -1: at every moment what it has processed followed by what it
\* holds and what is queued is an initial part of 0,...,9,-1; it exits only
\* on the sentinel; the sentinel is pushed only once the producer has
\* finished; when the consumer has exited the queue is empty and all eleven
\* values are processed; and under fair scheduling it does exit and main returns.
C17_ProducerConsumer ==
    /\ [](/\ IsPrefix(processed, ProdCons_expected)
          /\ IsPrefix(processed \o ProdCons_in_hand \o data_queue, ProdCons_expected)
          /\ (\E k \in 1..Len(data_queue) : data_queue[k] = ProdCons_sentinel) =>
                pc["producer"] = "done"
          /\ pc["consumer"] = "done" =>
                /\ processed = ProdCons_expected
                /\ data_queue = <<>>
                /\ pc["producer"] = "done")
    /\ [][(pc["consumer"] # "done" /\ pc'["consumer"] = "done") =>
            (data = ProdCons_sentinel /\ processed' = ProdCons_expected)]_vars
    /\ <>(ProdCons_main_returned /\ pc["consumer"] = "done")

\* The consumer has exited on the sentinel after the ten values and main()
\* has returned.
C17_Witness ==
    /\ ProdCons_main_returned
    /\ pc["consumer"] = "done"
    /\ pc["producer"] = "done"
    /\ processed = ProdCons_expected
    /\ data = ProdCons_sentinel
    /\ data_queue = <<>>

(***************************************************************************)
(* Further properties of the cycled barrier                                *)
(***************************************************************************)

\* Thread t is inside the arrival that completed a generation: it is about to
\* run, or is running, the completion function.
Cycle_completing(t) == pc[t] \in {"completion", "completion_running"}

\* Thread t has arrived and has not yet returned from arrive_and_wait().
Cycle_waiting(t) == pc[t] \in {"barrier_wait", "barrier_blocked"}

\* C19: the arrival counter is below the threshold whenever no arrival is in
\* progress (it equals the threshold only while the last arriver of a
\* generation completes it); the counter falls and the generation changes
\* only together, in the step that ends the threshold-th arrival: the counter
\* goes from the threshold to 0 and the generation up by exactly 1; every
\* other change of the counter is +1; and a thread that arrived in generation
\* G returns only in a state whose generation is above G.
C19_BarrierCounter ==
    /\ [](/\ barrier["barrier"].arrived \in 0..barrier["barrier"].threshold
          /\ (\A t \in Cycle_threads : ~Cycle_completing(t)) =>
                barrier["barrier"].arrived < barrier["barrier"].threshold)
    /\ [][/\ (\/ barrier["barrier"]'.generation # barrier["barrier"].generation
              \/ barrier["barrier"]'.arrived < barrier["barrier"].arrived) =>
                /\ barrier["barrier"].arrived = barrier["barrier"].threshold
                /\ barrier["barrier"]'.arrived = 0
                /\ barrier["barrier"]'.generation = barrier["barrier"].generation + 1
                /\ \E t \in Cycle_threads : pc[t] = "completion_running" /\ ~Cycle_completing(t)'
          /\ barrier["barrier"]'.arrived > barrier["barrier"].arrived =>
                barrier["barrier"]'.arrived = barrier["barrier"].arrived + 1
          /\ \A t \in Cycle_threads :
                (Cycle_waiting(t) /\ ~Cycle_waiting(t)') =>
                    barrier["barrier"].generation > token[t]]_vars

\* Generation 0 is over and two participants have already arrived for
\* generation 1 while the third, a waiter of generation 0, is still blocked.
C19_Witness ==
    /\ barrier["barrier"].generation = 1
    /\ barrier["barrier"].arrived = 2
    /\ \E t \in Cycle_threads : token[t] = 0 /\ pc[t] = "barrier_blocked"

(***************************************************************************)
(* The latch counter under concurrent count_down() calls                   *)
(***************************************************************************)

\* The value stageN_latch is constructed with.
MultiLatch_capacity(s) ==
    CASE s = 1 -> MultiLatch_stage1_latch
      [] s = 2 -> MultiLatch_stage2_latch
      [] OTHER -> MultiLatch_stage3_latch

\* C20: no decrement is lost: in every interleaving, after k of the three
\* tasks of a stage have executed count_down() the stage's latch holds its
\* capacity minus k; each count_down() lowers that latch by exactly one and
\* leaves the others alone; and the latch is open exactly from the call of
\* the last of the three tasks on, never earlier.
C20_NoLostDecrement ==
    /\ [](\A s \in MultiLatch_stages :
            /\ latch[stage_latch(s)] =
                   MultiLatch_capacity(s) - Cardinality(counted[stage_latch(s)])
            /\ is_ready(latch[stage_latch(s)]) <=>
                   counted[stage_latch(s)] = MultiLatch_stage_threads(s))
    /\ [][\A t \in MultiLatch_threads :
            (pc[t] = "count_down" /\ pc'[t] # "count_down") =>
                /\ latch' = [latch EXCEPT ![stage_latch(stage_of(t))] = @ - 1]
                /\ counted' = [counted EXCEPT ![stage_latch(stage_of(t))] = @ \cup {t}]
                /\ t \notin counted[stage_latch(stage_of(t))]]_vars

\* Two stage-1 tasks have just counted down, one after the other, while the
\* third was ready to count down as well: the latch is at 1 and still closed.
C20_Witness ==
    /\ latch["stage1_latch"] = 1
    /\ \E t \in MultiLatch_stage_threads(1) :
          /\ pc[t] = "count_down"
          /\ \A u \in MultiLatch_stage_threads(1) \ {t} : pc[u] = "print_completed"
    /\ \E id \in MultiLatch_ids : pc[stage_thread(2, id)] = "blocked"

(***************************************************************************)
(* The messages of test_multi_latch.cpp                                    *)
(***************************************************************************)

\* Task t has printed its "Stage N Task <id> started." line.
MultiLatch_printed_started(t) == pc[t] \in {"count_down", "print_completed", "done"}

\* Task t has printed its "Stage N Task <id> completed." line.
MultiLatch_printed_completed(t) == pc[t] = "done"

\* C21: every task of stage k-1 has printed "completed" before any task of
\* stage k, k in {2,3}, prints "started".
C21_CompletedBeforeNextStarted ==
    \A s \in {2, 3} : \A t \in MultiLatch_stage_threads(s) :
        MultiLatch_printed_started(t) =>
            \A u \in MultiLatch_stage_threads(s - 1) : MultiLatch_printed_completed(u)

(***************************************************************************)
(* Wake-ups, the mutex and the queue in std_async_prod_consumer_condvar.cpp *)
(***************************************************************************)

\* A thread has pushed and is about to call data_cond.notify_one().
ProdCons_notify_pending == pc["producer"] = "notify" \/ mainpc = 6

\* C22: no wake-up is lost: the consumer is never blocked on data_cond with
\* data in the queue unless it has been woken or the pusher's notify_one() is
\* still to come, whether or not earlier notifications found it waiting; and
\* under fair scheduling, with no spurious wake-up required, every wait on
\* data_cond ends, the consumer dequeues the sentinel and terminates,
\* consumer_future.get() returns and main exits.
C22_NoLostWakeup ==
    /\ []((pc["consumer"] = "waiting" /\ data_queue # <<>>) =>
             (notified \/ ProdCons_notify_pending))
    /\ (pc["consumer"] = "waiting") ~> (pc["consumer"] = "front")
    /\ <>[](/\ ProdCons_main_returned
            /\ pc["consumer"] = "done"
            /\ Len(processed) = ProdCons_count + 1
            /\ processed[Len(processed)] = ProdCons_sentinel)

\* The producer has just called notify_one() while the consumer was printing
\* outside the lock, so the notification woke nobody, and data is queued.
C22_Witness ==
    /\ pc["producer"] = "unlock"
    /\ pc["consumer"] = "print"
    /\ ~notified
    /\ Len(data_queue) >= 2

\* The threads that are between locking queue_mutex and releasing it.
ProdCons_in_critical_section ==
    {t \in ProdCons_tasks :
        \/ t = "producer" /\ pc[t] \in {"push", "notify", "unlock"}
        \/ t = "consumer" /\ pc[t] \in {"check", "front", "pop", "unlock"}}
    \cup (IF mainpc \in {5, 6, 7} THEN {"main"} ELSE {})

\* C23: the consumer is at front() or pop() only with data in the queue,
\* spurious wake-ups included; at most one thread is between lock and unlock
\* and it is the holder of queue_mutex; and every step that pushes to, reads
\* the front of or pops data_queue is taken by the thread holding queue_mutex.
C23_QueueGuarded ==
    /\ [](/\ pc["consumer"] \in {"front", "pop"} => data_queue # <<>>
          /\ Cardinality(ProdCons_in_critical_section) <= 1
          /\ \A t \in ProdCons_in_critical_section : queue_mutex = t
          /\ queue_mutex # "free" => queue_mutex \in ProdCons_in_critical_section)
    /\ [][/\ Len(data_queue') > Len(data_queue) =>
                \/ pc["producer"] = "push" /\ queue_mutex = "producer"
                \/ mainpc = 5 /\ queue_mutex = "main"
          /\ Len(data_queue') < Len(data_queue) =>
                pc["consumer"] = "pop" /\ queue_mutex = "consumer"
          /\ (pc["consumer"] = "front" /\ pc'["consumer"] # "front") =>
                /\ queue_mutex = "consumer"
                /\ data' = data_queue[1]]_vars

\* The consumer woke up spuriously: it is about to re-lock queue_mutex with
\* the queue empty, after it has already processed some values.
C23_Witness ==
    /\ pc["consumer"] = "relock"
    /\ data_queue = <<>>
    /\ Len(processed) >= 2
    /\ pc["producer"] = "lock"

(***************************************************************************)
(* test_condition_variable.cpp                                             *)
(*   std::mutex cv_mtx; std::condition_variable cv; bool ready = false;    *)
(*   std::thread t1(wait_for_ready); std::thread t2(set_ready);            *)
(***************************************************************************)

\* the two threads, named by the function each runs
CondVar_threads == {"wait_for_ready", "set_ready"}

CondVar_Init ==
    /\ pc = [t \in CondVar_threads |-> "ns"]
    /\ mainpc = 1
    /\ latch = <<>>
    /\ counted = <<>>
    /\ aborted = FALSE
    /\ barrier = <<>>
    /\ token = <<>>
    /\ arrivals = <<>>
    /\ completions = <<>>
    /\ NoQueue
    /\ cv_mtx = "free"
    /\ ready = FALSE
    /\ cv_notified = FALSE
    /\ atomic_counter = 0
    /\ shared_data = <<>>
    /\ data_mutex = <<>>
    /\ arr = <<>>
    /\ calls = <<>>
    /\ result = <<>>
    /\ output = <<>>

\* std::unique_lock<std::mutex> lock(cv_mtx); and the re-acquisition of
\* cv_mtx by cv.wait() after a wake-up
CondVar_wait_lock ==
    /\ pc["wait_for_ready"] \in {"lock", "relock"}
    /\ cv_mtx = "free"
    /\ cv_mtx' = "wait_for_ready"
    /\ pc' = [pc EXCEPT !["wait_for_ready"] = "check"]
    /\ UNCHANGED <<mainpc, latchVars, barrierVars, queueVars, ready, cv_notified,
                   atomic_counter, shared_data, data_mutex, arr, calls, result, output>>

\* A wait that blocks first and tests ready only after it was woken.
CondVar_wait_check_blocks_first ==
    /\ pc["wait_for_ready"] = "check"
    /\ cv_mtx' = "free"
    /\ pc' = [pc EXCEPT !["wait_for_ready"] = "waiting"]
    /\ UNCHANGED <<mainpc, latchVars, barrierVars, queueVars, ready, cv_notified,
                   atomic_counter, shared_data, data_mutex, arr, calls, result, output>>

\* cv.wait(lock, [] { return ready; }): the predicate is tested with cv_mtx
\* held; if it is false cv_mtx is released and the thread blocks on cv, in
\* one atomic step
CondVar_wait_check ==
    /\ pc["wait_for_ready"] = "check"
    /\ IF ready
          THEN /\ pc' = [pc EXCEPT !["wait_for_ready"] = "print"]
               /\ UNCHANGED cv_mtx
          ELSE /\ pc' = [pc EXCEPT !["wait_for_ready"] = "waiting"]
               /\ cv_mtx' = "free"
    /\ UNCHANGED <<mainpc, latchVars, barrierVars, queueVars, ready, cv_notified,
                   atomic_counter, shared_data, data_mutex, arr, calls, result, output>>

\* the thread blocked on cv is woken by the notify_one()
CondVar_wait_woken ==
    /\ pc["wait_for_ready"] = "waiting"
    /\ cv_notified
    /\ cv_notified' = FALSE
    /\ pc' = [pc EXCEPT !["wait_for_ready"] = "relock"]
    /\ UNCHANGED <<mainpc, latchVars, barrierVars, queueVars, cv_mtx, ready,
                   atomic_counter, shared_data, data_mutex, arr, calls, result, output>>

\* the thread blocked on cv wakes up spuriously
CondVar_wait_spurious ==
    /\ pc["wait_for_ready"] = "waiting"
    /\ ~cv_notified
    /\ pc' = [pc EXCEPT !["wait_for_ready"] = "relock"]
    /\ UNCHANGED <<mainpc, latchVars, barrierVars, queueVars, asyncVars>>

\* std::cout << "Thread is ready\n";
CondVar_wait_print ==
    /\ pc["wait_for_ready"] = "print"
    /\ output' = Append(output, <<"Thread is ready", ready>>)
    /\ pc' = [pc EXCEPT !["wait_for_ready"] = "unlock"]
    /\ UNCHANGED <<mainpc, latchVars, barrierVars, queueVars, cv_mtx, ready, cv_notified,
                   atomic_counter, shared_data, data_mutex, arr, calls, result>>

\* end of wait_for_ready: the unique_lock releases cv_mtx
CondVar_wait_unlock ==
    /\ pc["wait_for_ready"] = "unlock"
    /\ cv_mtx' = "free"
    /\ pc' = [pc EXCEPT !["wait_for_ready"] = "done"]
    /\ UNCHANGED <<mainpc, latchVars, barrierVars, queueVars, ready, cv_notified,
                   atomic_counter, shared_data, data_mutex, arr, calls, result, output>>

wait_for_ready ==
    \/ CondVar_wait_lock
    \/ CondVar_wait_check
    \/ CondVar_wait_woken
    \/ CondVar_wait_print
    \/ CondVar_wait_unlock

\* std::lock_guard<std::mutex> lock(cv_mtx);
CondVar_set_lock ==
    /\ pc["set_ready"] = "lock"
    /\ cv_mtx = "free"
    /\ cv_mtx' = "set_ready"
    /\ pc' = [pc EXCEPT !["set_ready"] = "set"]
    /\ UNCHANGED <<mainpc, latchVars, barrierVars, queueVars, ready, cv_notified,
                   atomic_counter, shared_data, data_mutex, arr, calls, result, output>>

\* ready = true;
CondVar_set_ready ==
    /\ pc["set_ready"] = "set"
    /\ ready' = TRUE
    /\ pc' = [pc EXCEPT !["set_ready"] = "notify"]
    /\ UNCHANGED <<mainpc, latchVars, barrierVars, queueVars, cv_mtx, cv_notified,
                   atomic_counter, shared_data, data_mutex, arr, calls, result, output>>

\* cv.notify_one(): wakes wait_for_ready if it is blocked on cv
CondVar_set_notify ==
    /\ pc["set_ready"] = "notify"
    /\ cv_notified' = IF pc["wait_for_ready"] = "waiting" THEN TRUE ELSE cv_notified
    /\ pc' = [pc EXCEPT !["set_ready"] = "unlock"]
    /\ UNCHANGED <<mainpc, latchVars, barrierVars, queueVars, cv_mtx, ready,
                   atomic_counter, shared_data, data_mutex, arr, calls, result, output>>

\* end of set_ready: the lock_guard releases cv_mtx
CondVar_set_unlock ==
    /\ pc["set_ready"] = "unlock"
    /\ cv_mtx' = "free"
    /\ pc' = [pc EXCEPT !["set_ready"] = "done"]
    /\ UNCHANGED <<mainpc, latchVars, barrierVars, queueVars, ready, cv_notified,
                   atomic_counter, shared_data, data_mutex, arr, calls, result, output>>

set_ready ==
    \/ CondVar_set_lock
    \/ CondVar_set_ready
    \/ CondVar_set_notify
    \/ CondVar_set_unlock

\* std::thread t1(wait_for_ready); std::thread t2(set_ready);
CondVar_main_spawn ==
    /\ mainpc \in {1, 2}
    /\ pc' = IF mainpc = 1 THEN [pc EXCEPT !["wait_for_ready"] = "lock"]
                           ELSE [pc EXCEPT !["set_ready"] = "lock"]
    /\ mainpc' = mainpc + 1
    /\ UNCHANGED <<latchVars, barrierVars, queueVars, asyncVars>>

\* t1.join(); t2.join();
CondVar_main_join ==
    /\ mainpc \in {3, 4}
    /\ pc[IF mainpc = 3 THEN "wait_for_ready" ELSE "set_ready"] = "done"
    /\ mainpc' = mainpc + 1
    /\ UNCHANGED <<pc, latchVars, barrierVars, queueVars, asyncVars>>

\* return 0;
CondVar_main_return ==
    /\ mainpc = 5
    /\ mainpc' = 6
    /\ UNCHANGED <<pc, latchVars, barrierVars, queueVars, asyncVars>>

CondVar_main ==
    \/ CondVar_main_spawn
    \/ CondVar_main_join
    \/ CondVar_main_return

\* main() has returned.
CondVar_main_returned == mainpc = 6

CondVar_Next ==
    \/ CondVar_main
    \/ wait_for_ready
    \/ set_ready
    \/ CondVar_wait_spurious

\* Every thread that can take a step eventually takes one, a thread that
\* tries to lock cv_mtx eventually gets it, and no spurious wake-up is ever
\* required to happen.
CondVarFairSpec ==
    /\ CondVar_Init
    /\ [][CondVar_Next]_vars
    /\ SF_vars(CondVar_main)
    /\ SF_vars(wait_for_ready)
    /\ SF_vars(set_ready)

(***************************************************************************)
(* The two programs that hand data over through a condition variable:      *)
(* test_condition_variable and std_async_prod_consumer_condvar.            *)
(***************************************************************************)

\* The program running is test_condition_variable.
CondVar_running == DOMAIN pc = CondVar_threads

\* The program running is std_async_prod_consumer_condvar.
ProdCons_running == DOMAIN pc = ProdCons_tasks

Handshake_Init == CondVar_Init \/ ProdCons_Init

Handshake_Next ==
    \/ CondVar_running /\ CondVar_Next
    \/ ProdCons_running /\ ProdCons_Next

\* Either program under the fairness of CondVarFairSpec and ProdConsFairSpec.
HandshakeFairSpec ==
    /\ Handshake_Init
    /\ [][Handshake_Next]_vars
    /\ SF_vars(CondVar_running /\ CondVar_main)
    /\ SF_vars(CondVar_running /\ wait_for_ready)
    /\ SF_vars(CondVar_running /\ set_ready)
    /\ SF_vars(ProdCons_running /\ ProdCons_main)
    /\ SF_vars(ProdCons_running /\ producer)
    /\ SF_vars(ProdCons_running /\ consumer)

(***************************************************************************)
(* Properties of test_condition_variable.cpp                               *)
(***************************************************************************)

\* C24: wait_for_ready prints "Thread is ready" only with ready true (it is
\* past cv.wait only with ready true, spurious wake-ups included), and under
\* fair scheduling, whichever thread runs first and also when set_ready()
\* has set the flag and notified before wait_for_ready waits, the line is
\* printed exactly once, both threads finish and main returns.
C24_Handshake ==
    /\ [](CondVar_running =>
             /\ \A k \in 1..Len(output) : output[k] = <<"Thread is ready", TRUE>>
             /\ pc["wait_for_ready"] \in {"print", "unlock", "done"} => ready
             /\ Len(output) <= 1)
    /\ <>[](CondVar_running =>
               /\ CondVar_main_returned
               /\ \A t \in CondVar_threads : pc[t] = "done"
               /\ output = << <<"Thread is ready", TRUE>> >>)

\* set_ready() has set the flag, notified nobody and returned before
\* wait_for_ready has locked cv_mtx for the first time.
C24_Witness ==
    /\ CondVar_running
    /\ pc["set_ready"] = "done"
    /\ pc["wait_for_ready"] = "lock"
    /\ ready
    /\ ~cv_notified

(***************************************************************************)
(* test_atomic.cpp                                                         *)
(*   std::atomic<int> atomic_counter(0);                                   *)
(*   std::thread t1(increment_counter); std::thread t2(increment_counter); *)
(***************************************************************************)

\* t1 and t2, by number
Atomic_threads == 1..2

Atomic_Init ==
    /\ pc = [t \in Atomic_threads |-> "ns"]
    /\ mainpc = 1
    /\ latch = <<>>
    /\ counted = <<>>
    /\ aborted = FALSE
    /\ barrier = <<>>
    /\ token = <<>>
    /\ arrivals = <<>>
    /\ completions = <<>>
    /\ NoQueue
    /\ cv_mtx = "free"
    /\ ready = FALSE
    /\ cv_notified = FALSE
    /\ atomic_counter = 0
    /\ shared_data = <<>>
    /\ data_mutex = <<>>
    /\ arr = <<>>
    /\ calls = <<>>
    /\ result = <<>>
    /\ output = <<>>

\* An increment that stores the value read at thread start plus one.
Atomic_increment_stale(t) ==
    /\ pc[t] = "increment"
    /\ atomic_counter' = 1
    /\ pc' = [pc EXCEPT ![t] = "done"]
    /\ UNCHANGED <<mainpc, latchVars, barrierVars, queueVars, cv_mtx, ready, cv_notified,
                   shared_data, data_mutex, arr, calls, result, output>>

\* atomic_counter++;  one atomic read-modify-write
increment_counter(t) ==
    /\ pc[t] = "increment"
    /\ atomic_counter' = atomic_counter + 1
    /\ pc' = [pc EXCEPT ![t] = "done"]
    /\ UNCHANGED <<mainpc, latchVars, barrierVars, queueVars, cv_mtx, ready, cv_notified,
                   shared_data, data_mutex, arr, calls, result, output>>

\* std::thread t1(increment_counter); std::thread t2(increment_counter);
Atomic_main_spawn ==
    /\ mainpc \in {1, 2}
    /\ pc' = [pc EXCEPT ![mainpc] = "increment"]
    /\ mainpc' = mainpc + 1
    /\ UNCHANGED <<latchVars, barrierVars, queueVars, asyncVars>>

\* t1.join(); t2.join();
Atomic_main_join ==
    /\ mainpc \in {3, 4}
    /\ pc[mainpc - 2] = "done"
    /\ mainpc' = mainpc + 1
    /\ UNCHANGED <<pc, latchVars, barrierVars, queueVars, asyncVars>>

\* std::cout << "Counter: " << atomic_counter << std::endl; return 0;
Atomic_main_print ==
    /\ mainpc = 5
    /\ output' = Append(output, <<"Counter: ", atomic_counter>>)
    /\ mainpc' = 6
    /\ UNCHANGED <<pc, latchVars, barrierVars, queueVars, cv_mtx, ready, cv_notified,
                   atomic_counter, shared_data, data_mutex, arr, calls, result>>

Atomic_main ==
    \/ Atomic_main_spawn
    \/ Atomic_main_join
    \/ Atomic_main_print

Atomic_Next ==
    \/ Atomic_main
    \/ \E t \in Atomic_threads : increment_counter(t)

(***************************************************************************)
(* std_async_shared_resources.cpp                                          *)
(*   std::vector<int> shared_data; std::mutex data_mutex;                  *)
(*   numTasks tasks modify_shared_data(i) run as std::async tasks.         *)
(***************************************************************************)

\* const int numTasks = 10; in the source; the model runs this many tasks
numTasks == 4

Shared_tasks == 0..(numTasks - 1)

Shared_Init ==
    /\ pc = [t \in Shared_tasks |-> "ns"]
    /\ mainpc = 1
    /\ latch = <<>>
    /\ counted = <<>>
    /\ aborted = FALSE
    /\ barrier = <<>>
    /\ token = <<>>
    /\ arrivals = <<>>
    /\ completions = <<>>
    /\ NoQueue
    /\ cv_mtx = "free"
    /\ ready = FALSE
    /\ cv_notified = FALSE
    /\ atomic_counter = 0
    /\ shared_data = <<>>
    /\ data_mutex = <<>>
    /\ arr = <<>>
    /\ calls = <<>>
    /\ result = <<>>
    /\ output = <<>>

\* A lock that is taken without waiting for data_mutex to be free.
Shared_task_lock_no_wait(id) ==
    /\ pc[id] = "lock"
    /\ data_mutex' = <<id>>
    /\ pc' = [pc EXCEPT ![id] = "push_back"]
    /\ UNCHANGED <<mainpc, latchVars, barrierVars, queueVars, cv_mtx, ready, cv_notified,
                   atomic_counter, shared_data, arr, calls, result, output>>

\* std::lock_guard<std::mutex> lock(data_mutex);
Shared_task_lock(id) ==
    /\ pc[id] = "lock"
    /\ data_mutex = <<>>
    /\ data_mutex' = <<id>>
    /\ pc' = [pc EXCEPT ![id] = "push_back"]
    /\ UNCHANGED <<mainpc, latchVars, barrierVars, queueVars, cv_mtx, ready, cv_notified,
                   atomic_counter, shared_data, arr, calls, result, output>>

\* shared_data.push_back(id);
Shared_task_push_back(id) ==
    /\ pc[id] = "push_back"
    /\ shared_data' = Append(shared_data, id)
    /\ pc' = [pc EXCEPT ![id] = "print"]
    /\ UNCHANGED <<mainpc, latchVars, barrierVars, queueVars, cv_mtx, ready, cv_notified,
                   atomic_counter, data_mutex, arr, calls, result, output>>

\* std::cout << "Task " << id << " added data.\n";
Shared_task_print(id) ==
    /\ pc[id] = "print"
    /\ output' = Append(output, <<"Task added data", id>>)
    /\ pc' = [pc EXCEPT ![id] = "unlock"]
    /\ UNCHANGED <<mainpc, latchVars, barrierVars, queueVars, cv_mtx, ready, cv_notified,
                   atomic_counter, shared_data, data_mutex, arr, calls, result>>

\* end of modify_shared_data: the lock_guard releases data_mutex
Shared_task_unlock(id) ==
    /\ pc[id] = "unlock"
    /\ data_mutex = <<id>>
    /\ data_mutex' = <<>>
    /\ pc' = [pc EXCEPT ![id] = "done"]
    /\ UNCHANGED <<mainpc, latchVars, barrierVars, queueVars, cv_mtx, ready, cv_notified,
                   atomic_counter, shared_data, arr, calls, result, output>>

modify_shared_data(id) ==
    \/ Shared_task_lock(id)
    \/ Shared_task_push_back(id)
    \/ Shared_task_print(id)
    \/ Shared_task_unlock(id)

\* futures.push_back(std::async(std::launch::async, modify_shared_data, i));
Shared_main_async ==
    /\ mainpc \in 1..numTasks
    /\ pc' = [pc EXCEPT ![mainpc - 1] = "lock"]
    /\ mainpc' = mainpc + 1
    /\ UNCHANGED <<latchVars, barrierVars, queueVars, asyncVars>>

\* for (auto& f : futures) f.get();
Shared_main_get ==
    /\ mainpc \in (numTasks + 1)..(2 * numTasks)
    /\ pc[mainpc - numTasks - 1] = "done"
    /\ mainpc' = mainpc + 1
    /\ UNCHANGED <<pc, latchVars, barrierVars, queueVars, asyncVars>>

\* std::cout << "Shared data: "; for (int value : shared_data) ...; return 0;
Shared_main_print ==
    /\ mainpc = 2 * numTasks + 1
    /\ output' = Append(output, <<"Shared data: ", shared_data>>)
    /\ mainpc' = mainpc + 1
    /\ UNCHANGED <<pc, latchVars, barrierVars, queueVars, cv_mtx, ready, cv_notified,
                   atomic_counter, shared_data, data_mutex, arr, calls, result>>

Shared_main ==
    \/ Shared_main_async
    \/ Shared_main_get
    \/ Shared_main_print

\* Every future has been waited on.
Shared_all_got == mainpc > 2 * numTasks

Shared_Next ==
    \/ Shared_main
    \/ \E id \in Shared_tasks : modify_shared_data(id)

(***************************************************************************)
(* The two programs whose threads update one shared object: test_atomic    *)
(* and std_async_shared_resources.                                         *)
(***************************************************************************)

\* The program running is test_atomic.
Atomic_running == DOMAIN pc = Atomic_threads

\* The program running is std_async_shared_resources.
Shared_running == DOMAIN pc = Shared_tasks

SharedObject_Init == Atomic_Init \/ Shared_Init

SharedObject_Next ==
    \/ Atomic_running /\ Atomic_Next
    \/ Shared_running /\ Shared_Next

SharedObjectSpec == SharedObject_Init /\ [][SharedObject_Next]_vars

(***************************************************************************)
(* Properties of test_atomic.cpp and std_async_shared_resources.cpp        *)
(***************************************************************************)

\* C25: no increment is lost: atomic_counter always equals the number of
\* threads that have executed atomic_counter++, never exceeds the number of
\* threads, and is 2 once both threads are joined, which is what main prints.
C25_NoLostIncrement ==
    Atomic_running =>
        /\ atomic_counter = Cardinality({t \in Atomic_threads : pc[t] = "done"})
        /\ atomic_counter <= Cardinality(Atomic_threads)
        /\ mainpc >= 5 => atomic_counter = 2
        /\ \A k \in 1..Len(output) : output[k] = <<"Counter: ", 2>>

\* Both threads have incremented before main joined either; later main has
\* printed the counter.
C25_Witness ==
    /\ Atomic_running
    /\ mainpc = 6
    /\ atomic_counter = 2
    /\ output = << <<"Counter: ", 2>> >>

\* The tasks that are between locking data_mutex and releasing it.
Shared_in_critical_section ==
    {id \in Shared_tasks : pc[id] \in {"push_back", "print", "unlock"}}

\* C26: at most one task is inside the critical section of
\* modify_shared_data and it holds data_mutex; shared_data never holds an id
\* twice and holds exactly the ids of the tasks that have pushed; once every
\* future has been waited on it holds each id 0..numTasks-1 exactly once.
C26_SharedVector ==
    Shared_running =>
        /\ Cardinality(Shared_in_critical_section) <= 1
        /\ \A id \in Shared_in_critical_section : data_mutex = <<id>>
        /\ \A j, k \in 1..Len(shared_data) : shared_data[j] = shared_data[k] => j = k
        /\ {shared_data[k] : k \in 1..Len(shared_data)} =
               {id \in Shared_tasks : pc[id] \in {"print", "unlock", "done"}}
        /\ Shared_all_got =>
               /\ Len(shared_data) = numTasks
               /\ {shared_data[k] : k \in 1..Len(shared_data)} = Shared_tasks

\* Every future has been waited on and the ids are in shared_data in an
\* order other than the order the tasks were launched in.
C26_Witness ==
    /\ Shared_running
    /\ Shared_all_got
    /\ Len(shared_data) = numTasks
    /\ shared_data[1] = numTasks - 1
    /\ shared_data[numTasks] = 0

(***************************************************************************)
(* test2.cpp: fork/join sum                                                *)
(*   int parallel_sum(const std::vector<int>& arr, int start, int end)     *)
(*   A call sums a short range itself; a longer one is split at mid into   *)
(*   two std::async calls whose results it adds.                           *)
(***************************************************************************)

\* the size of the vector (10000 in main)
MaxSize == 5

\* if (end - start < 1000): the length from which a range is split
SplitSize == 3

\* the width of int, in bits (32 in the build)
IntBits == 2

\* the values the elements of arr are drawn from
ElementValues == {-1, 0, 1}

\* 2 to the power n
RECURSIVE Pow2(_)
Pow2(n) == IF n = 0 THEN 1 ELSE 2 * Pow2(n - 1)

\* A value as an int holds it: two's complement of IntBits bits.
ToInt(v) == ((v + Pow2(IntBits - 1)) % Pow2(IntBits)) - Pow2(IntBits - 1)

\* for (int i = start; i < end; ++i) sum += arr[i];  continued from i with sum
RECURSIVE loop_sum(_, _, _, _)
loop_sum(a, i, end, sum) ==
    IF i < end THEN loop_sum(a, i + 1, end, ToInt(sum + a[i + 1])) ELSE sum

\* The sum of arr[start..end-1] computed by one sequential loop.
sequential_sum(a, start, end) == loop_sum(a, start, end, 0)

\* A call of parallel_sum that has just been made.
NewCall(start, end) ==
    [start |-> start, end |-> end, pc |-> "test", mid |-> start,
     left |-> <<>>, right |-> <<>>, sum |-> 0]

\* The calls made by call n for the left and the right half.
LeftCall(n) == 2 * n
RightCall(n) == 2 * n + 1

ForkJoin_Init ==
    /\ pc = <<>>
    /\ mainpc = 1
    /\ latch = <<>>
    /\ counted = <<>>
    /\ aborted = FALSE
    /\ barrier = <<>>
    /\ token = <<>>
    /\ arrivals = <<>>
    /\ completions = <<>>
    /\ NoQueue
    /\ cv_mtx = "free"
    /\ ready = FALSE
    /\ cv_notified = FALSE
    /\ atomic_counter = 0
    /\ shared_data = <<>>
    /\ data_mutex = <<>>
    /\ arr \in [1..MaxSize -> ElementValues]
    /\ \E start \in 0..MaxSize : \E end \in start..MaxSize :
          calls = [n \in {1} |-> NewCall(start, end)]
    /\ result = <<>>
    /\ output = <<>>

\* if (end - start < 1000)
ForkJoin_test(n) ==
    /\ calls[n].pc = "test"
    /\ calls' = [calls EXCEPT ![n].pc =
                    IF calls[n].end - calls[n].start < SplitSize THEN "loop" ELSE "mid"]
    /\ UNCHANGED <<pc, mainpc, latchVars, barrierVars, queueVars, cv_mtx, ready,
                   cv_notified, atomic_counter, shared_data, data_mutex, arr, result, output>>

\* int sum = 0; for (...) sum += arr[i]; return sum;
ForkJoin_loop(n) ==
    /\ calls[n].pc = "loop"
    /\ calls' = [calls EXCEPT ![n].sum = sequential_sum(arr, calls[n].start, calls[n].end),
                              ![n].pc = "returned"]
    /\ UNCHANGED <<pc, mainpc, latchVars, barrierVars, queueVars, cv_mtx, ready,
                   cv_notified, atomic_counter, shared_data, data_mutex, arr, result, output>>

\* int mid = start + (end - start) / 2;
ForkJoin_mid(n) ==
    /\ calls[n].pc = "mid"
    /\ calls' = [calls EXCEPT ![n].mid = calls[n].start + (calls[n].end - calls[n].start) \div 2,
                              ![n].pc = "async_left"]
    /\ UNCHANGED <<pc, mainpc, latchVars, barrierVars, queueVars, cv_mtx, ready,
                   cv_notified, atomic_counter, shared_data, data_mutex, arr, result, output>>

\* auto left_future = std::async(std::launch::async, parallel_sum, std::ref(arr), start, mid);
ForkJoin_async_left(n) ==
    /\ calls[n].pc = "async_left"
    /\ calls' = [m \in DOMAIN calls \cup {LeftCall(n)} |->
                    IF m = LeftCall(n) THEN NewCall(calls[n].start, calls[n].mid)
                    ELSE IF m = n THEN [calls[n] EXCEPT !.pc = "async_right"]
                    ELSE calls[m]]
    /\ UNCHANGED <<pc, mainpc, latchVars, barrierVars, queueVars, cv_mtx, ready,
                   cv_notified, atomic_counter, shared_data, data_mutex, arr, result, output>>

\* auto right_future = std::async(std::launch::async, parallel_sum, std::ref(arr), mid, end);
ForkJoin_async_right(n) ==
    /\ calls[n].pc = "async_right"
    /\ calls' = [m \in DOMAIN calls \cup {RightCall(n)} |->
                    IF m = RightCall(n) THEN NewCall(calls[n].mid, calls[n].end)
                    ELSE IF m = n THEN [calls[n] EXCEPT !.pc = "get"]
                    ELSE calls[m]]
    /\ UNCHANGED <<pc, mainpc, latchVars, barrierVars, queueVars, cv_mtx, ready,
                   cv_notified, atomic_counter, shared_data, data_mutex, arr, result, output>>

\* A get() that does not wait for the asynchronous call to return.
ForkJoin_get_no_wait(n, side) ==
    /\ calls[n].pc = "get"
    /\ \/ /\ side = "left"
          /\ calls[n].left = <<>>
          /\ calls' = [calls EXCEPT ![n].left = <<calls[LeftCall(n)].sum>>]
       \/ /\ side = "right"
          /\ calls[n].right = <<>>
          /\ calls' = [calls EXCEPT ![n].right = <<calls[RightCall(n)].sum>>]
    /\ UNCHANGED <<pc, mainpc, latchVars, barrierVars, queueVars, cv_mtx, ready,
                   cv_notified, atomic_counter, shared_data, data_mutex, arr, result, output>>

\* left_future.get() and right_future.get(), the operands of the + in the
\* return statement, evaluated in either order; each blocks until its call
\* has returned
ForkJoin_get(n, side) ==
    /\ calls[n].pc = "get"
    /\ \/ /\ side = "left"
          /\ calls[n].left = <<>>
          /\ calls[LeftCall(n)].pc = "returned"
          /\ calls' = [calls EXCEPT ![n].left = <<calls[LeftCall(n)].sum>>]
       \/ /\ side = "right"
          /\ calls[n].right = <<>>
          /\ calls[RightCall(n)].pc = "returned"
          /\ calls' = [calls EXCEPT ![n].right = <<calls[RightCall(n)].sum>>]
    /\ UNCHANGED <<pc, mainpc, latchVars, barrierVars, queueVars, cv_mtx, ready,
                   cv_notified, atomic_counter, shared_data, data_mutex, arr, result, output>>

\* return left_future.get() + right_future.get();
ForkJoin_return(n) ==
    /\ calls[n].pc = "get"
    /\ calls[n].left # <<>>
    /\ calls[n].right # <<>>
    /\ calls' = [calls EXCEPT ![n].sum = ToInt(calls[n].left[1] + calls[n].right[1]),
                              ![n].pc = "returned"]
    /\ UNCHANGED <<pc, mainpc, latchVars, barrierVars, queueVars, cv_mtx, ready,
                   cv_notified, atomic_counter, shared_data, data_mutex, arr, result, output>>

parallel_sum(n) ==
    \/ ForkJoin_test(n)
    \/ ForkJoin_loop(n)
    \/ ForkJoin_mid(n)
    \/ ForkJoin_async_left(n)
    \/ ForkJoin_async_right(n)
    \/ \E side \in {"left", "right"} : ForkJoin_get(n, side)
    \/ ForkJoin_return(n)

\* int total_sum = parallel_sum(...) has returned;
\* std::cout << "Total sum: " << total_sum << std::endl; return 0;
ForkJoin_main_print ==
    /\ mainpc = 1
    /\ calls[1].pc = "returned"
    /\ output' = Append(output, <<"Total sum: ", calls[1].sum>>)
    /\ mainpc' = 2
    /\ UNCHANGED <<pc, latchVars, barrierVars, queueVars, cv_mtx, ready, cv_notified,
                   atomic_counter, shared_data, data_mutex, arr, calls, result>>

ForkJoin_Next ==
    \/ ForkJoin_main_print
    \/ \E n \in DOMAIN calls : parallel_sum(n)

\* Every call that can take a step eventually takes one.
ForkJoinFairSpec ==
    /\ ForkJoin_Init
    /\ [][ForkJoin_Next]_vars
    /\ WF_vars(ForkJoin_Next)

(***************************************************************************)
(* Properties of test2.cpp                                                 *)
(***************************************************************************)

\* Call n has split its range and launched both halves.
ForkJoin_forked(n) == LeftCall(n) \in DOMAIN calls /\ RightCall(n) \in DOMAIN calls

\* C27: for every array and every range 0 <= start <= end <= size the call
\* of parallel_sum returns, and returns the sum one sequential loop over
\* arr[start..end-1] gives; every call that splits its range splits it into
\* two non-empty ranges [start, mid) and [mid, end), which its two calls
\* take; and a call has a half's result, and returns, only after the call
\* for that half has returned.
C27_ParallelSum ==
    /\ [](\A n \in DOMAIN calls :
            /\ 0 <= calls[n].start
            /\ calls[n].start <= calls[n].end
            /\ calls[n].end <= Len(arr)
            /\ calls[n].pc = "returned" =>
                  calls[n].sum = sequential_sum(arr, calls[n].start, calls[n].end)
            /\ calls[n].pc \in {"async_left", "async_right", "get"} =>
                  /\ calls[n].start < calls[n].mid
                  /\ calls[n].mid < calls[n].end
            /\ LeftCall(n) \in DOMAIN calls =>
                  /\ calls[LeftCall(n)].start = calls[n].start
                  /\ calls[LeftCall(n)].end = calls[n].mid
            /\ RightCall(n) \in DOMAIN calls =>
                  /\ calls[RightCall(n)].start = calls[n].mid
                  /\ calls[RightCall(n)].end = calls[n].end
            /\ calls[n].left # <<>> =>
                  /\ calls[LeftCall(n)].pc = "returned"
                  /\ calls[n].left[1] = calls[LeftCall(n)].sum
            /\ calls[n].right # <<>> =>
                  /\ calls[RightCall(n)].pc = "returned"
                  /\ calls[n].right[1] = calls[RightCall(n)].sum
            /\ (calls[n].pc = "returned" /\ ForkJoin_forked(n)) =>
                  /\ calls[n].left # <<>>
                  /\ calls[n].right # <<>>)
    /\ <>[](/\ calls[1].pc = "returned"
            /\ mainpc = 2
            /\ output = << <<"Total sum: ", sequential_sum(arr, calls[1].start, calls[1].end)>> >>)

\* The call for the whole vector has returned after two levels of splitting,
\* with a sum that needed more than one element of each sign.
C27_Witness ==
    /\ calls[1].pc = "returned"
    /\ calls[1].start = 0
    /\ calls[1].end = MaxSize
    /\ ForkJoin_forked(1)
    /\ ForkJoin_forked(RightCall(1))
    /\ \E j, k \in 1..MaxSize : arr[j] = 1 /\ arr[k] = -1
    /\ calls[1].sum = 1

(***************************************************************************)
(* std_async_except_task.cpp (and its copy std_async2.cpp)                 *)
(*   std::future<int> result = std::async(std::launch::async,              *)
(*                                        risky_compute, -5);              *)
(*   main() prints "Result: " or, in the catch block, "Error: ".           *)
(***************************************************************************)

\* risky_compute is run with an argument between -MaxInput and MaxInput
\* (main passes -5)
MaxInput == 8

\* the asynchronous task
Except_tasks == {"risky_compute"}

\* std::runtime_error("Negative input not allowed")
Except_what == "Negative input not allowed"

Except_Init ==
    /\ pc = [t \in Except_tasks |-> "ns"]
    /\ mainpc = 1
    /\ latch = <<>>
    /\ counted = <<>>
    /\ aborted = FALSE
    /\ barrier = <<>>
    /\ token = <<>>
    /\ arrivals = <<>>
    /\ completions = <<>>
    /\ NoQueue
    /\ cv_mtx = "free"
    /\ ready = FALSE
    /\ cv_notified = FALSE
    /\ atomic_counter = 0
    /\ shared_data = <<>>
    /\ data_mutex = <<>>
    /\ arr = <<>>
    /\ \E x \in (-MaxInput)..MaxInput : calls = [c \in Except_tasks |-> [x |-> x]]
    /\ result = [state |-> "none", value |-> 0, what |-> ""]
    /\ output = <<>>

\* if (x < 0) ...
Except_task_test ==
    /\ pc["risky_compute"] = "test"
    /\ pc' = [pc EXCEPT !["risky_compute"] =
                 IF calls["risky_compute"].x < 0 THEN "throw" ELSE "return"]
    /\ UNCHANGED <<mainpc, latchVars, barrierVars, queueVars, asyncVars>>

\* A task whose exception is dropped: the future is made ready with 0.
Except_task_throw_lost ==
    /\ pc["risky_compute"] = "throw"
    /\ result' = [result EXCEPT !.state = "value", !.value = 0]
    /\ pc' = [pc EXCEPT !["risky_compute"] = "done"]
    /\ UNCHANGED <<mainpc, latchVars, barrierVars, queueVars, cv_mtx, ready, cv_notified,
                   atomic_counter, shared_data, data_mutex, arr, calls, output>>

\* throw std::runtime_error("Negative input not allowed"); the exception
\* leaves risky_compute and is stored in the future's shared state
Except_task_throw ==
    /\ pc["risky_compute"] = "throw"
    /\ result' = [result EXCEPT !.state = "exception", !.what = Except_what]
    /\ pc' = [pc EXCEPT !["risky_compute"] = "done"]
    /\ UNCHANGED <<mainpc, latchVars, barrierVars, queueVars, cv_mtx, ready, cv_notified,
                   atomic_counter, shared_data, data_mutex, arr, calls, output>>

\* return x * x; the value is stored in the future's shared state
Except_task_return ==
    /\ pc["risky_compute"] = "return"
    /\ result' = [result EXCEPT !.state = "value",
                                !.value = calls["risky_compute"].x * calls["risky_compute"].x]
    /\ pc' = [pc EXCEPT !["risky_compute"] = "done"]
    /\ UNCHANGED <<mainpc, latchVars, barrierVars, queueVars, cv_mtx, ready, cv_notified,
                   atomic_counter, shared_data, data_mutex, arr, calls, output>>

risky_compute ==
    \/ Except_task_test
    \/ Except_task_throw
    \/ Except_task_return

\* std::future<int> result = std::async(std::launch::async, risky_compute, -5);
Except_main_async ==
    /\ mainpc = 1
    /\ result' = [result EXCEPT !.state = "pending"]
    /\ pc' = [pc EXCEPT !["risky_compute"] = "test"]
    /\ mainpc' = 2
    /\ UNCHANGED <<latchVars, barrierVars, queueVars, cv_mtx, ready, cv_notified,
                   atomic_counter, shared_data, data_mutex, arr, calls, output>>

\* int value = result.get(); blocks until the shared state is ready, then
\* returns the value or rethrows the stored exception into the catch block
Except_main_get ==
    /\ mainpc = 2
    /\ result.state \in {"value", "exception"}
    /\ mainpc' = IF result.state = "value" THEN 3 ELSE 4
    /\ UNCHANGED <<pc, latchVars, barrierVars, queueVars, asyncVars>>

\* std::cout << "Result: " << value << std::endl;
Except_main_print_result ==
    /\ mainpc = 3
    /\ output' = Append(output, <<"Result: ", result.value>>)
    /\ mainpc' = 5
    /\ UNCHANGED <<pc, latchVars, barrierVars, queueVars, cv_mtx, ready, cv_notified,
                   atomic_counter, shared_data, data_mutex, arr, calls, result>>

\* catch (const std::exception& e) { std::cerr << "Error: " << e.what() << std::endl; }
Except_main_print_error ==
    /\ mainpc = 4
    /\ output' = Append(output, <<"Error: ", result.what>>)
    /\ mainpc' = 5
    /\ UNCHANGED <<pc, latchVars, barrierVars, queueVars, cv_mtx, ready, cv_notified,
                   atomic_counter, shared_data, data_mutex, arr, calls, result>>

\* return 0;
Except_main_return ==
    /\ mainpc = 5
    /\ mainpc' = 6
    /\ UNCHANGED <<pc, latchVars, barrierVars, queueVars, asyncVars>>

Except_main ==
    \/ Except_main_async
    \/ Except_main_get
    \/ Except_main_print_result
    \/ Except_main_print_error
    \/ Except_main_return

\* main() has returned normally.
Except_main_returned == mainpc = 6

Except_Next ==
    \/ Except_main
    \/ risky_compute

\* Every thread that can take a step eventually takes one.
ExceptFairSpec ==
    /\ Except_Init
    /\ [][Except_Next]_vars
    /\ WF_vars(Except_Next)

(***************************************************************************)
(* Properties of std_async_except_task.cpp                                 *)
(***************************************************************************)

\* The lines main() has printed that start with head.
Except_lines(head) == {k \in 1..Len(output) : output[k][1] = head}

\* C28: with a negative input the exception thrown in the task is rethrown
\* by result.get(): no "Result:" line is ever printed, the catch block
\* prints the "Error:" line with the task's message exactly once and main
\* returns; with a non-negative input get() yields x * x, which the
\* "Result:" line shows, and no "Error:" line is ever printed.
C28_ExceptionThroughFuture ==
    /\ [](IF calls["risky_compute"].x < 0
             THEN /\ Except_lines("Result: ") = {}
                  /\ Cardinality(Except_lines("Error: ")) <= 1
                  /\ result.state # "value"
                  /\ mainpc # 3
             ELSE /\ Except_lines("Error: ") = {}
                  /\ result.state # "exception"
                  /\ mainpc # 4
                  /\ \A k \in 1..Len(output) :
                        output[k][2] = calls["risky_compute"].x * calls["risky_compute"].x)
    /\ <>[](/\ Except_main_returned
            /\ output = IF calls["risky_compute"].x < 0
                           THEN << <<"Error: ", Except_what>> >>
                           ELSE << <<"Result: ", calls["risky_compute"].x
                                                  * calls["risky_compute"].x>> >>)

\* The run of the program as written: input -5, the error line printed once,
\* main returned.
C28_Witness ==
    /\ calls["risky_compute"].x = -5
    /\ Except_main_returned
    /\ output = << <<"Error: ", Except_what>> >>
    /\ result.state = "exception"

====
